---- MODULE Spec2Model ----
(***************************************************************************)
(* Fund analysis engine: the performance and risk calculations of          *)
(* backend/app/utils/calculations.py and risk_calculations.py (README.md)  *)
(* over the monthly return series of one fund, as ingested by the          *)
(* Morningstar parser.                                                     *)
(*                                                                         *)
(* Numbers are exact rationals <<n, d>> in lowest terms with d > 0, so the *)
(* results are those of real arithmetic (floating-point rounding is not    *)
(* modelled).  Python's None for a number is the empty tuple.              *)
(***************************************************************************)
EXTENDS Integers, Sequences, FiniteSets, TLC

(***************************************************************************)
(* Bounds of the explored input space.                                     *)
(***************************************************************************)
\* longest series ingested
MaxObs == 37
\* number of leading observations whose return is drawn from ReturnPool
MaxVaried == 3
\* number of empty cells (missing months) a fund's row may hold
MaxGaps == 1

\* returns (percent) a varied observation may take
ReturnPool == {-200, -50, 0, 100}
\* a series grows past the varied observations when these are all in LongPool
LongPool == {-50, 100}
\* returns of the observations after the varied ones
SteadyPool == {0}
\* the worked example of the specification
ExampleReturns == <<1, -2, 3>>
\* year and month of the first date column of the sheet
FirstColumn == <<2020, 1>>

VARIABLES returns_df, gaps, response

\* the DataStore singleton, the server's clock and, for the time since the
\* data was last cleared, the file of the latest successful upload with
\* whether it was the first (1) or a later one (2)
VARIABLES _funds_df, _returns_df, _upload_timestamp, now, uploaded

\* the compare page: its state, its date range picker, the loads awaiting
\* their responses and the number of loads started so far; picked and
\* outcome record the inputs of the latest preset choice and the outcome of
\* the latest completed load
VARIABLES page, picker, loads, picked, outcome, started

\* the fund selector of the compare page: the funds it lists, and the
\* arguments of the latest call of handleAddFund with the selection it found
VARIABLES allFunds, added

calc_vars == <<returns_df, gaps>>

page_vars == <<page, picker, loads, picked, outcome, started, allFunds, added>>

store_vars == <<_funds_df, _returns_df, _upload_timestamp, now, uploaded>>

vars == <<returns_df, gaps, response, store_vars, page_vars>>

(***************************************************************************)
(* Exact rational arithmetic.                                              *)
(***************************************************************************)
Abs(x) == IF x < 0 THEN -x ELSE x

Min(a, b) == IF a <= b THEN a ELSE b

RECURSIVE GCD(_, _)
GCD(a, b) == IF b = 0 THEN a ELSE GCD(b, a % b)

Zero == <<0, 1>>
One == <<1, 1>>

\* the fraction n / d in lowest terms, with a positive denominator
Rat(n, d) ==
    IF n = 0 THEN Zero
    ELSE LET g == GCD(Abs(n), Abs(d))
             s == IF d < 0 THEN -1 ELSE 1
         IN  <<(s * n) \div g, (s * d) \div g>>
Hundred == <<100, 1>>
None == <<>>

RAdd(a, b) ==
    IF a[1] = 0 THEN b
    ELSE IF b[1] = 0 THEN a
    ELSE LET g == GCD(a[2], b[2])
         IN  Rat(a[1] * (b[2] \div g) + b[1] * (a[2] \div g), (a[2] \div g) * b[2])

RNeg(a) == <<-a[1], a[2]>>

RSub(a, b) == RAdd(a, RNeg(b))

RMul(a, b) ==
    IF a[1] = 0 \/ b[1] = 0 THEN Zero
    ELSE LET g1 == GCD(Abs(a[1]), b[2])
             g2 == GCD(Abs(b[1]), a[2])
         IN  Rat((a[1] \div g1) * (b[1] \div g2), (a[2] \div g2) * (b[2] \div g1))

RInv(a) == IF a[1] < 0 THEN <<-a[2], -a[1]>> ELSE <<a[2], a[1]>>

RDiv(a, b) == RMul(a, RInv(b))

RLt(a, b) == RSub(a, b)[1] < 0

RLe(a, b) == RSub(a, b)[1] <= 0

\* x ** e for a rational exponent e = <<p, q>>: exact when the result is
\* rational for every x (e = 1) or for this x (x = 0, x = 1); otherwise the
\* irrational value is kept as the term <<n, d, p, q>> = (n/d)^(p/q).
RPow(x, e) ==
    IF e = One \/ x = Zero \/ x = One THEN x
    ELSE <<x[1], x[2], e[1], e[2]>>

IsRat(v) == Len(v) = 2

(***************************************************************************)
(* Calendar dates, encoded so that integer order is date order.            *)
(***************************************************************************)
\* a date is (year * 12 + month - 1) * 32 + day
MonthIndex(date) == date \div 32

DayOf(date) == date % 32

IsLeap(y) == (y % 4 = 0 /\ y % 100 # 0) \/ y % 400 = 0

DaysInMonth(mi) ==
    LET y == mi \div 12
        m == (mi % 12) + 1
    IN  IF m = 2 THEN (IF IsLeap(y) THEN 29 ELSE 28)
        ELSE IF m \in {4, 6, 9, 11} THEN 30 ELSE 31

MonthEnd(mi) == mi * 32 + DaysInMonth(mi)

\* date - pd.DateOffset(months=months): same day of the earlier month,
\* clamped to that month's last day
DateOffsetMonths(date, months) ==
    LET mi == MonthIndex(date) - months
    IN  mi * 32 + Min(DayOf(date), DaysInMonth(mi))

NoDate == 0

(***************************************************************************)
(* Series helpers.                                                         *)
(***************************************************************************)
Front(s) == SubSeq(s, 1, Len(s) - 1)

Last(s) == s[Len(s)]

MonthlyReturns(df) == [i \in 1..Len(df) |-> df[i].monthly_return]

Dates(df) == [i \in 1..Len(df) |-> df[i].date]

IsSortedByDate(df) == \A i \in 1..(Len(df) - 1) : df[i].date <= df[i + 1].date

RECURSIVE InsertByDate(_, _)
InsertByDate(s, row) ==
    IF Len(s) = 0 \/ Last(s).date <= row.date THEN Append(s, row)
    ELSE Append(InsertByDate(Front(s), row), Last(s))

RECURSIVE InsertionSort(_)
InsertionSort(df) ==
    IF Len(df) = 0 THEN df ELSE InsertByDate(InsertionSort(Front(df)), Last(df))

\* returns_df.sort_values('date')
sort_values(df) == IF IsSortedByDate(df) THEN df ELSE InsertionSort(df)

\* returns_df['date'].max()
MaxDate(df) == CHOOSE d \in {df[i].date : i \in 1..Len(df)} :
                   \A i \in 1..Len(df) : df[i].date <= d

(***************************************************************************)
(* PerformanceCalculator                                                   *)
(***************************************************************************)
\* (1 + decimal_returns).cumprod(): the running products, first to last.
\* Here and below a series is built one element per step, four steps per
\* level of recursion.
cumprod(returns) ==
    LET step(acc) ==
            IF Len(acc) = Len(returns) THEN acc
            ELSE Append(acc,
                     IF Len(acc) = 0 THEN RAdd(One, Rat(returns[1], 100))
                     ELSE RMul(Last(acc),
                               RAdd(One, Rat(returns[Len(acc) + 1], 100))))
        RECURSIVE from(_)
        from(acc) ==
            IF Len(acc) = Len(returns) THEN acc
            ELSE from(step(step(step(step(acc)))))
    IN  from(<<>>)

\* (1 + returns / 100).prod(): the last running product, 1 for no factor
prod(returns) ==
    IF Len(returns) = 0 THEN One ELSE Last(cumprod(returns))

\* returns.sum(): the last running sum
SumOf(returns) ==
    LET step(acc) ==
            IF Len(acc) = Len(returns) THEN acc
            ELSE Append(acc,
                     IF Len(acc) = 0 THEN Rat(returns[1], 1)
                     ELSE RAdd(Last(acc), Rat(returns[Len(acc) + 1], 1)))
        RECURSIVE from(_)
        from(acc) ==
            IF Len(acc) = Len(returns) THEN acc
            ELSE from(step(step(step(step(acc)))))
    IN  IF Len(returns) = 0 THEN Zero ELSE Last(from(<<>>))

\* variant: adds the returns up instead of compounding them
calculate_total_return_sum(returns) ==
    IF Len(returns) = 0 THEN Zero ELSE SumOf(returns)

calculate_total_return(returns) ==
    IF Len(returns) = 0 THEN Zero
    ELSE RMul(RSub(prod(returns), One), Hundred)

\* (x - 1) * 100 for an exact x, the same term for an irrational one
GrowthToPercent(x) ==
    IF IsRat(x) THEN RMul(RSub(x, One), Hundred) ELSE x

\* variant: takes the number of months for the number of years
calculate_annualized_return_months(returns, periods_per_year) ==
    IF Len(returns) = 0 THEN Zero
    ELSE LET total_return == calculate_total_return(returns)
             n_years == Rat(Len(returns), 1)
         IN  GrowthToPercent(RPow(RAdd(One, RDiv(total_return, Hundred)),
                                  RDiv(One, n_years)))

calculate_annualized_return(returns, periods_per_year) ==
    IF Len(returns) = 0 THEN Zero
    ELSE LET total_return == calculate_total_return(returns)
             n_periods == Len(returns)
             n_years == Rat(n_periods, periods_per_year)
         IN  IF n_years = Zero THEN Zero
             ELSE GrowthToPercent(RPow(RAdd(One, RDiv(total_return, Hundred)),
                                       RDiv(One, n_years)))

\* (cumulative - 1) * 100, element by element
ToPercent(cumulative) ==
    LET step(acc) ==
            IF Len(acc) = Len(cumulative) THEN acc
            ELSE Append(acc, RMul(RSub(cumulative[Len(acc) + 1], One), Hundred))
        RECURSIVE from(_)
        from(acc) ==
            IF Len(acc) = Len(cumulative) THEN acc
            ELSE from(step(step(step(step(acc)))))
    IN  from(<<>>)

calculate_cumulative_returns_series(returns) == ToPercent(cumprod(returns))

(***************************************************************************)
(* RiskCalculator                                                          *)
(***************************************************************************)
RMax(a, b) == IF RLt(a, b) THEN b ELSE a

\* wealth_index.expanding().max()
expanding_max(s) ==
    LET step(acc) ==
            IF Len(acc) = Len(s) THEN acc
            ELSE Append(acc, IF Len(acc) = 0 THEN s[1]
                             ELSE RMax(Last(acc), s[Len(acc) + 1]))
        RECURSIVE from(_)
        from(acc) ==
            IF Len(acc) = Len(s) THEN acc
            ELSE from(step(step(step(step(acc)))))
    IN  from(<<>>)

\* position of the first minimum / maximum of s[from..to]
\* (Series.idxmin, Series.idxmax return the first occurrence)
RECURSIVE ArgMin(_, _, _, _)
ArgMin(s, i, to, best) ==
    IF i > to THEN best
    ELSE IF RLt(s[i], s[best]) THEN ArgMin(s, i + 1, to, i)
    ELSE ArgMin(s, i + 1, to, best)

idxmin(s, from, to) == ArgMin(s, from + 1, to, from)

RECURSIVE ArgMax(_, _, _, _)
ArgMax(s, i, to, best) ==
    IF i > to THEN best
    ELSE IF RLt(s[best], s[i]) THEN ArgMax(s, i + 1, to, i)
    ELSE ArgMax(s, i + 1, to, best)

idxmax(s, from, to) == ArgMax(s, from + 1, to, from)

\* position of the first element of s[i..to] that is >= v, 0 when there is none
RECURSIVE FirstAtLeast(_, _, _, _)
FirstAtLeast(s, i, to, v) ==
    IF i > to THEN 0
    ELSE IF RLe(v, s[i]) THEN i
    ELSE FirstAtLeast(s, i + 1, to, v)

\* the maximum of the whole series at every point
Repeat(v, n) ==
    LET step(acc) == IF Len(acc) = n THEN acc ELSE Append(acc, v)
        RECURSIVE from(_)
        from(acc) ==
            IF Len(acc) = n THEN acc
            ELSE from(step(step(step(step(acc)))))
    IN  from(<<>>)

overall_max(s) ==
    IF Len(s) = 0 THEN <<>> ELSE Repeat(s[idxmax(s, 1, Len(s))], Len(s))

\* 1 + cumulative_returns / 100, element by element
WealthIndex(cumulative_returns) ==
    LET step(acc) ==
            IF Len(acc) = Len(cumulative_returns) THEN acc
            ELSE Append(acc, RAdd(One, RDiv(cumulative_returns[Len(acc) + 1],
                                            Hundred)))
        RECURSIVE from(_)
        from(acc) ==
            IF Len(acc) = Len(cumulative_returns) THEN acc
            ELSE from(step(step(step(step(acc)))))
    IN  from(<<>>)

\* variant: the fall below the running maximum in points of the wealth
\* index, not as a fraction of the maximum
DrawdownOf_absolute(wealth_index, running_max) ==
    LET step(acc) ==
            IF Len(acc) = Len(wealth_index) THEN acc
            ELSE Append(acc,
                     RMul(RSub(wealth_index[Len(acc) + 1],
                               running_max[Len(acc) + 1]),
                          Hundred))
        RECURSIVE from(_)
        from(acc) ==
            IF Len(acc) = Len(wealth_index) THEN acc
            ELSE from(step(step(step(step(acc)))))
    IN  from(<<>>)

\* (wealth_index - running_max) / running_max * 100, element by element
DrawdownOf(wealth_index, running_max) ==
    LET step(acc) ==
            IF Len(acc) = Len(wealth_index) THEN acc
            ELSE Append(acc,
                     RMul(RDiv(RSub(wealth_index[Len(acc) + 1],
                                    running_max[Len(acc) + 1]),
                               running_max[Len(acc) + 1]),
                          Hundred))
        RECURSIVE from(_)
        from(acc) ==
            IF Len(acc) = Len(wealth_index) THEN acc
            ELSE from(step(step(step(step(acc)))))
    IN  from(<<>>)

\* variant: measures from the maximum of the whole series
calculate_drawdown_series_overall(cumulative_returns) ==
    LET wealth_index == WealthIndex(cumulative_returns)
        running_max == overall_max(wealth_index)
    IN  DrawdownOf(wealth_index, running_max)

calculate_drawdown_series(cumulative_returns) ==
    LET wealth_index == WealthIndex(cumulative_returns)
        running_max == expanding_max(wealth_index)
    IN  DrawdownOf(wealth_index, running_max)

\* variant: the duration slice leaves the trough out
calculate_max_drawdown_exclusive(returns, index) ==
    LET cumulative_returns == calculate_cumulative_returns_series(returns)
        drawdown_series == calculate_drawdown_series(cumulative_returns)
        n == Len(returns)
        trough == idxmin(drawdown_series, 1, n)
        peak == idxmax(cumulative_returns, 1, trough)
        recovery == FirstAtLeast(cumulative_returns, trough, n, cumulative_returns[peak])
    IN  [max_drawdown |-> drawdown_series[trough],
         peak_date |-> index[peak],
         trough_date |-> index[trough],
         recovery_date |-> IF recovery # 0 THEN index[recovery] ELSE NoDate,
         drawdown_duration_months |-> IF peak # trough THEN trough - peak ELSE 0]

\* variant: takes the trough where the cumulative return is lowest
calculate_max_drawdown_lowest(returns, index) ==
    LET cumulative_returns == calculate_cumulative_returns_series(returns)
        drawdown_series == calculate_drawdown_series(cumulative_returns)
        n == Len(returns)
        max_dd_date == idxmin(cumulative_returns, 1, n)
        peak_date == idxmax(cumulative_returns, 1, max_dd_date)
        peak_value == cumulative_returns[peak_date]
        recovery_date == FirstAtLeast(cumulative_returns, max_dd_date, n, peak_value)
    IN  [max_drawdown |-> drawdown_series[max_dd_date],
         peak_date |-> index[peak_date],
         trough_date |-> index[max_dd_date],
         recovery_date |-> IF recovery_date # 0 THEN index[recovery_date] ELSE NoDate,
         drawdown_duration_months |->
             IF peak_date # max_dd_date THEN (max_dd_date - peak_date) + 1 ELSE 0]

\* the series is indexed by date: the slices [:max_dd_date], [max_dd_date:]
\* and [peak_date:max_dd_date] are label slices, both ends included
calculate_max_drawdown(returns, index) ==
    LET cumulative_returns == calculate_cumulative_returns_series(returns)
        drawdown_series == calculate_drawdown_series(cumulative_returns)
        n == Len(returns)
        max_dd_date == idxmin(drawdown_series, 1, n)
        peak_date == idxmax(cumulative_returns, 1, max_dd_date)
        peak_value == cumulative_returns[peak_date]
        recovery_date == FirstAtLeast(cumulative_returns, max_dd_date, n, peak_value)
    IN  [max_drawdown |-> drawdown_series[max_dd_date],
         peak_date |-> index[peak_date],
         trough_date |-> index[max_dd_date],
         recovery_date |-> IF recovery_date # 0 THEN index[recovery_date] ELSE NoDate,
         drawdown_duration_months |->
             IF peak_date # max_dd_date THEN (max_dd_date - peak_date) + 1 ELSE 0]

\* returns[returns < 0]
NegativeReturns(returns) ==
    LET step(acc) ==
            IF acc[1] = Len(returns) THEN acc
            ELSE <<acc[1] + 1,
                   IF returns[acc[1] + 1] < 0
                   THEN Append(acc[2], returns[acc[1] + 1]) ELSE acc[2]>>
        RECURSIVE from(_)
        from(acc) ==
            IF acc[1] = Len(returns) THEN acc[2]
            ELSE from(step(step(step(step(acc)))))
    IN  from(<<0, <<>>>>)

\* the sum of (x - mean)^2 over the series
SumSquaredDeviations(returns, mean) ==
    LET step(acc) ==
            IF Len(acc) = Len(returns) THEN acc
            ELSE Append(acc,
                     RAdd(IF Len(acc) = 0 THEN Zero ELSE Last(acc),
                          RMul(RSub(Rat(returns[Len(acc) + 1], 1), mean),
                               RSub(Rat(returns[Len(acc) + 1], 1), mean))))
        RECURSIVE from(_)
        from(acc) ==
            IF Len(acc) = Len(returns) THEN acc
            ELSE from(step(step(step(step(acc)))))
    IN  IF Len(returns) = 0 THEN Zero ELSE Last(from(<<>>))

\* the square of returns.std(): the sample variance (ddof = 1) of a series
\* of at least two observations
Variance(returns) ==
    LET mean == RDiv(SumOf(returns), Rat(Len(returns), 1))
    IN  RDiv(SumSquaredDeviations(returns, mean), Rat(Len(returns) - 1, 1))

\* std_dev, or std_dev * np.sqrt(12) = sqrt(12 * variance) when annualized
StdDev(returns, annualize) ==
    RPow(IF annualize THEN RMul(Variance(returns), Rat(12, 1))
         ELSE Variance(returns),
         Rat(1, 2))

calculate_volatility(returns, annualize) ==
    IF Len(returns) < 2 THEN Zero ELSE StdDev(returns, annualize)

calculate_downside_deviation(returns, annualize) ==
    LET negative_returns == NegativeReturns(returns)
    IN  IF Len(negative_returns) < 2 THEN Zero
        ELSE StdDev(negative_returns, annualize)

\* returns - (risk_free_rate / 12), for annual rates that are whole
\* multiples of 12
ExcessReturns(returns, risk_free_rate) ==
    [i \in 1..Len(returns) |-> returns[i] - (risk_free_rate \div 12)]

\* a / b: exact when both are exact, otherwise the pair of terms
\* (a rational n/d written as the term (n/d)^(1/1))
Term(x) == IF IsRat(x) THEN <<x[1], x[2], 1, 1>> ELSE x

Quotient(a, b) ==
    IF IsRat(a) /\ IsRat(b) THEN RDiv(a, b) ELSE Term(a) \o Term(b)

calculate_sharpe_ratio(returns, risk_free_rate) ==
    IF Len(returns) < 2 THEN Zero
    ELSE LET excess_returns == ExcessReturns(returns, risk_free_rate)
             annualized_return == calculate_annualized_return(excess_returns, 12)
             annualized_vol == calculate_volatility(returns, TRUE)
         IN  IF annualized_vol = Zero THEN Zero
             ELSE Quotient(annualized_return, annualized_vol)

calculate_sortino_ratio(returns, risk_free_rate) ==
    IF Len(returns) < 2 THEN Zero
    ELSE LET excess_returns == ExcessReturns(returns, risk_free_rate)
             annualized_return == calculate_annualized_return(excess_returns, 12)
             downside_dev == calculate_downside_deviation(returns, TRUE)
         IN  IF downside_dev = Zero THEN Zero
             ELSE Quotient(annualized_return, downside_dev)

\* the trailing periods of calculate_period_returns, label -> months
periods ==
    [p \in {"1M", "3M", "6M", "1Y", "3Y", "5Y", "10Y"} |->
        CASE p = "1M" -> 1
          [] p = "3M" -> 3
          [] p = "6M" -> 6
          [] p = "1Y" -> 12
          [] p = "3Y" -> 36
          [] p = "5Y" -> 60
          [] p = "10Y" -> 120]

\* the labels computed as a cumulative return
CumulativePeriods == {"1M", "3M", "6M"}

\* returns_df[returns_df['date'] > start_date]['monthly_return'] with
\* start_date = latest_date - pd.DateOffset(months=months)
PeriodData(df, months) ==
    LET start_date == DateOffsetMonths(MaxDate(df), months)
    IN  MonthlyReturns(SelectSeq(df, LAMBDA row : row.date > start_date))

\* variant: computes on any non-empty window
PeriodReturn_partial(df, period_name) ==
    LET months == periods[period_name]
        period_data == PeriodData(df, months)
    IN  IF Len(period_data) >= 1
        THEN IF period_name \in CumulativePeriods
             THEN calculate_total_return(period_data)
             ELSE calculate_annualized_return(period_data, 12)
        ELSE None

\* variant: counts 1Y among the cumulative labels
PeriodReturn_1Y_cumulative(df, period_name) ==
    LET months == periods[period_name]
        period_data == PeriodData(df, months)
    IN  IF Len(period_data) >= months
        THEN IF period_name \in CumulativePeriods \cup {"1Y"}
             THEN calculate_total_return(period_data)
             ELSE calculate_annualized_return(period_data, 12)
        ELSE None

\* one trailing period of a non-empty frame
PeriodReturn(df, period_name) ==
    LET months == periods[period_name]
        period_data == PeriodData(df, months)
    IN  IF Len(period_data) >= months
        THEN IF period_name \in CumulativePeriods
             THEN calculate_total_return(period_data)
             ELSE calculate_annualized_return(period_data, 12)
        ELSE None

\* the mapping returned for a fund; an empty frame has no latest date (NaT),
\* every comparison with it is false and every trailing window is empty
calculate_period_returns(returns_df_arg) ==
    LET df == sort_values(returns_df_arg)
        labels == DOMAIN periods \cup (IF Len(df) > 0 THEN {"ITD"} ELSE {})
    IN  [p \in labels |->
            IF p = "ITD" THEN calculate_annualized_return(MonthlyReturns(df), 12)
            ELSE IF Len(df) = 0 THEN None
            ELSE PeriodReturn(df, p)]

\* returns_df['date'].dt.year
YearOf(date) == MonthIndex(date) \div 12

\* variant: annualizes each year's return
calculate_calendar_year_returns_annualized(returns_df_arg) ==
    [year \in {YearOf(returns_df_arg[i].date) : i \in 1..Len(returns_df_arg)} |->
        calculate_annualized_return(
            MonthlyReturns(SelectSeq(returns_df_arg,
                                     LAMBDA row : YearOf(row.date) = year)), 12)]

\* the mapping year -> return, one key per value of the year column
calculate_calendar_year_returns(returns_df_arg) ==
    [year \in {YearOf(returns_df_arg[i].date) : i \in 1..Len(returns_df_arg)} |->
        calculate_total_return(
            MonthlyReturns(SelectSeq(returns_df_arg,
                                     LAMBDA row : YearOf(row.date) = year)))]

(***************************************************************************)
(* CalendarYearTable: one row per key, most recent year first; no rows     *)
(* (the no-data notice) for an empty mapping.                              *)
(***************************************************************************)
CalendarYearTable(calendarReturns) ==
    LET RECURSIVE rows(_)
        rows(years) ==
            IF years = {} THEN <<>>
            ELSE LET latest == CHOOSE y \in years : \A z \in years : z <= y
                 IN  <<[year |-> latest, value |-> calendarReturns[latest]]>>
                         \o rows(years \ {latest})
    IN  rows(DOMAIN calendarReturns)

(***************************************************************************)
(* PerformanceTable: the rows of the period table and their type tag.      *)
(***************************************************************************)
PerformanceTable_periods ==
    << [key |-> "1M", annualized |-> FALSE],
       [key |-> "3M", annualized |-> FALSE],
       [key |-> "6M", annualized |-> FALSE],
       [key |-> "YTD", annualized |-> FALSE],
       [key |-> "1Y", annualized |-> TRUE],
       [key |-> "3Y", annualized |-> TRUE],
       [key |-> "5Y", annualized |-> TRUE],
       [key |-> "10Y", annualized |-> TRUE],
       [key |-> "ITD", annualized |-> TRUE] >>

\* performance[period.key]: undefined for a key the mapping lacks
Lookup(performance, key) ==
    IF key \in DOMAIN performance THEN performance[key] ELSE None

\* the rows rendered (label and type cell): periods whose value is null or
\* undefined are skipped
PerformanceTable(performance) ==
    LET shown == SelectSeq(PerformanceTable_periods,
                           LAMBDA period : Lookup(performance, period.key) # None)
    IN  [i \in 1..Len(shown) |->
            [key |-> shown[i].key,
             type |-> IF shown[i].annualized THEN "Annualized" ELSE "Cumulative"]]

(***************************************************************************)
(* Ingestion: MorningstarParser._process_returns walks the date columns of *)
(* the fund's row in order and appends one record per non-empty cell.      *)
(***************************************************************************)
IsPrefix(s, t) == Len(s) <= Len(t) /\ SubSeq(t, 1, Len(s)) = s

\* the returns the next non-empty cell may hold: short series take any
\* return of ReturnPool (or follow the worked example), long histories
\* start with returns of LongPool and go on with those of SteadyPool
CellValues(df) ==
    IF Len(df) < MaxVaried
    THEN ReturnPool
         \cup (IF Len(df) < Len(ExampleReturns)
                  /\ IsPrefix(MonthlyReturns(df), ExampleReturns)
               THEN {ExampleReturns[Len(df) + 1]} ELSE {})
    ELSE IF \A i \in 1..MaxVaried : df[i].monthly_return \in LongPool
         THEN SteadyPool ELSE {}

\* the numbers of empty cells that may precede the next non-empty one
EmptyCells(df) ==
    IF Len(df) > 0 /\ Len(df) < MaxVaried /\ gaps < MaxGaps THEN {0, 1} ELSE {0}

AppendObservation(return_value, skipped) ==
    /\ Len(returns_df) < MaxObs
    /\ LET mi == IF Len(returns_df) = 0
                 THEN FirstColumn[1] * 12 + (FirstColumn[2] - 1)
                 ELSE MonthIndex(Last(returns_df).date) + 1 + skipped
       IN  returns_df' = Append(returns_df,
                                [date |-> MonthEnd(mi),
                                 monthly_return |-> return_value])
    /\ gaps' = gaps + skipped
    /\ response' = [kind |-> "none"]
    /\ UNCHANGED <<store_vars, page_vars>>

Ingest ==
    \E return_value \in CellValues(returns_df), skipped \in EmptyCells(returns_df) :
        AppendObservation(return_value, skipped)

(***************************************************************************)
(* Requests.                                                               *)
(***************************************************************************)
\* calculate_total_return and calculate_annualized_return applied to the
\* fund's series
CalculateReturns ==
    /\ response.kind = "none"
    /\ response' = [kind |-> "returns",
                    total_return |-> calculate_total_return(MonthlyReturns(returns_df)),
                    annualized_return |->
                        calculate_annualized_return(MonthlyReturns(returns_df), 12)]
    /\ UNCHANGED <<returns_df, gaps, store_vars, page_vars>>

\* calculate_period_returns applied to the fund's frame
\* (GET /api/performance/{fund_id}) and the table shown for its result
GetPerformance ==
    /\ response.kind = "none"
    /\ LET performance == calculate_period_returns(returns_df)
       IN  response' = [kind |-> "performance",
                        performance |-> performance,
                        table |-> PerformanceTable(performance)]
    /\ UNCHANGED <<returns_df, gaps, store_vars, page_vars>>

\* the (date, drawdown) points of a drawdown series indexed by date
DrawdownPoints(index, drawdown) ==
    LET step(acc) ==
            IF Len(acc) = Len(drawdown) THEN acc
            ELSE Append(acc, [date |-> index[Len(acc) + 1],
                              drawdown |-> drawdown[Len(acc) + 1]])
        RECURSIVE from(_)
        from(acc) ==
            IF Len(acc) = Len(drawdown) THEN acc
            ELSE from(step(step(step(step(acc)))))
    IN  from(<<>>)

\* calculate_drawdown_series applied to the fund's cumulative returns
\* (GET /api/risk/{fund_id}/drawdown)
CalculateDrawdownSeries ==
    /\ response.kind = "none"
    /\ response' = [kind |-> "drawdown",
                    drawdown_series |->
                        DrawdownPoints(Dates(returns_df),
                            calculate_drawdown_series(
                                calculate_cumulative_returns_series(
                                    MonthlyReturns(returns_df))))]
    /\ UNCHANGED <<returns_df, gaps, store_vars, page_vars>>

\* calculate_max_drawdown applied to the fund's series (GET /api/risk/{fund_id});
\* idxmin raises on an empty series
CalculateMaxDrawdown ==
    /\ response.kind = "none"
    /\ response' = IF Len(returns_df) = 0
                   THEN [kind |-> "error"]
                   ELSE [kind |-> "risk",
                         max_drawdown |->
                             calculate_max_drawdown(MonthlyReturns(returns_df),
                                                    Dates(returns_df))]
    /\ UNCHANGED <<returns_df, gaps, store_vars, page_vars>>

\* the annual risk-free rates (percent) a request may carry; a rate other
\* than the default 0 is tried on short series
RiskFreeRates(df) == IF Len(df) <= MaxVaried THEN {0, 12} ELSE {0}

\* (returns > 0).sum() and (returns < 0).sum()
positive_months(returns) == Cardinality({i \in 1..Len(returns) : returns[i] > 0})

negative_months(returns) == Cardinality({i \in 1..Len(returns) : returns[i] < 0})

\* the value of the Win Rate card of RiskOverview: null when either count
\* is 0, which is falsy
WinRate(riskMetrics) ==
    IF riskMetrics.positive_months # 0 /\ riskMetrics.negative_months # 0
    THEN <<RMul(Rat(riskMetrics.positive_months,
                    riskMetrics.positive_months + riskMetrics.negative_months),
                Hundred)>>
    ELSE None

\* calculate_volatility, calculate_downside_deviation, calculate_sharpe_ratio
\* and calculate_sortino_ratio applied to the fund's series, with the counts
\* of calculate_risk_metrics and the win rate RiskOverview shows for them
CalculateRisk ==
    /\ response.kind = "none"
    /\ \E risk_free_rate \in RiskFreeRates(returns_df) :
           response' =
               [kind |-> "risk_metrics",
                risk_free_rate |-> risk_free_rate,
                volatility |-> calculate_volatility(MonthlyReturns(returns_df), TRUE),
                downside_deviation |->
                    calculate_downside_deviation(MonthlyReturns(returns_df), TRUE),
                sharpe_ratio |->
                    calculate_sharpe_ratio(MonthlyReturns(returns_df), risk_free_rate),
                sortino_ratio |->
                    calculate_sortino_ratio(MonthlyReturns(returns_df), risk_free_rate),
                positive_months |-> positive_months(MonthlyReturns(returns_df)),
                negative_months |-> negative_months(MonthlyReturns(returns_df)),
                win_rate |->
                    WinRate([positive_months |->
                                 positive_months(MonthlyReturns(returns_df)),
                             negative_months |->
                                 negative_months(MonthlyReturns(returns_df))])]
    /\ UNCHANGED <<returns_df, gaps, store_vars, page_vars>>

\* calculate_calendar_year_returns applied to the fund's frame
\* (GET /api/performance/{fund_id}/calendar-years) and the table shown for
\* its result
GetCalendarYearReturns ==
    /\ response.kind = "none"
    /\ LET calendar_returns == calculate_calendar_year_returns(returns_df)
       IN  response' = [kind |-> "calendar",
                        calendar_returns |-> calendar_returns,
                        table |-> CalendarYearTable(calendar_returns)]
    /\ UNCHANGED <<returns_df, gaps, store_vars, page_vars>>

\* the compare page before it is opened
NoPage ==
    /\ page = <<>>
    /\ picker = <<>>
    /\ loads = <<>>
    /\ picked = <<>>
    /\ outcome = <<>>
    /\ started = 0
    /\ allFunds = {}
    /\ added = <<>>

\* the DataStore before any upload
NoData ==
    /\ _funds_df = None
    /\ _returns_df = None
    /\ _upload_timestamp = None
    /\ now = 0
    /\ uploaded = None

Init ==
    /\ returns_df = <<>>
    /\ gaps = 0
    /\ response = [kind |-> "none"]
    /\ NoData
    /\ NoPage

Next ==
    \/ Ingest
    \/ CalculateReturns
    \/ GetPerformance
    \/ CalculateDrawdownSeries
    \/ CalculateMaxDrawdown
    \/ CalculateRisk
    \/ GetCalendarYearReturns

Spec == Init /\ [][Next]_vars

(***************************************************************************)
(* The uploaded sheet, the Morningstar parser (backend/app/utils/parser.py)*)
(* and the in-memory DataStore (backend/app/storage.py) with the endpoints *)
(* that read and write it.  An Optional value is None or <<value>>.        *)
(***************************************************************************)
\* most funds (named rows) a sheet holds
MaxFunds == 2
\* number of days the clock advances
MaxTicks == 1

\* names of the funds of a sheet, by row
FundNames == <<"Fund A", "Fund B", "Fund C">>
\* the date columns of a sheet, headed dd/mm/YYYY
DateColumns == <<<<31, 1, 2020>>, <<29, 2, 2020>>, <<31, 3, 2020>>>>
\* the returns (percent) a fund's row holds where its cell is not empty
SheetValues == <<<<1, -2, 3>>, <<-5, 10, 0>>, <<4, 4, -2>>>>
\* the sets of date columns in which a fund's row may hold a value
CellPatterns == {{1, 2, 3}, {2, 3}, {1}, {}}

\* the group row that precedes the funds of a sheet
GroupRow == [name |-> "Local Funds", cells |-> <<None, None, None>>]

FundRow(k, pattern) ==
    [name |-> FundNames[k],
     cells |-> <<IF 1 \in pattern THEN <<SheetValues[k][1]>> ELSE None,
                 IF 2 \in pattern THEN <<SheetValues[k][2]>> ELSE None,
                 IF 3 \in pattern THEN <<SheetValues[k][3]>> ELSE None>>]

\* the sheets of 1..MaxFunds funds
Sheets ==
    UNION {{<<GroupRow>> \o [k \in 1..n |-> FundRow(k, patterns[k])] :
                patterns \in [1..n -> CellPatterns]} : n \in 1..MaxFunds}

\* the files a client may upload: every sheet as .xlsx, one sheet under
\* two other names
Files ==
    {[filename |-> <<"funds", "xlsx">>, rows |-> rows] : rows \in Sheets}
        \cup {[filename |-> <<"funds", extension>>,
               rows |-> <<GroupRow, FundRow(1, {1, 2, 3})>>] :
                  extension \in {"xls", "csv"}}

\* pd.to_datetime(date_str, format='%d/%m/%Y')
to_datetime_dmy(date_str) ==
    (date_str[3] * 12 + (date_str[2] - 1)) * 32 + date_str[1]

\* pd.to_datetime of an ISO date 'YYYY-MM-DD'
to_datetime(date_str) ==
    (date_str[1] * 12 + (date_str[2] - 1)) * 32 + date_str[3]

\* strftime('%Y-%m-%d')
strftime(date) ==
    <<MonthIndex(date) \div 12, (MonthIndex(date) % 12) + 1, DayOf(date)>>

\* the rows of a frame
Rows(df) == {df[i] : i \in 1..Len(df)}

\* the rows of a frame that are among kept, in the frame's order
Filter(df, kept) ==
    LET step(acc) ==
            IF acc.i > Len(df) THEN acc
            ELSE [i |-> acc.i + 1,
                  rows |-> IF df[acc.i] \in kept THEN Append(acc.rows, df[acc.i])
                           ELSE acc.rows]
        RECURSIVE from(_)
        from(acc) ==
            IF acc.i > Len(df) THEN acc
            ELSE from(step(step(step(step(acc)))))
    IN  from([i |-> 1, rows |-> <<>>]).rows

\* MorningstarParser._process_funds: the named rows other than the group
\* row, numbered from 1
_process_funds(df) ==
    LET funds == Filter(df, {row \in Rows(df) : row.name # "Local Funds"})
    IN  [k \in 1..Len(funds) |-> [fund_id |-> k, fund_name |-> funds[k].name]]

\* dict(zip(funds_df['fund_name'], funds_df['fund_id'])).get(fund_name):
\* the last fund of that name
FundIdOf(funds_df, fund_name) ==
    LET ids == {k \in 1..Len(funds_df) : funds_df[k].fund_name = fund_name}
    IN  IF ids = {} THEN None
        ELSE <<funds_df[CHOOSE k \in ids : \A j \in ids : j <= k].fund_id>>

\* the records _process_returns appends for one row of the sheet
RowRecords(row, date_cols, funds_df) ==
    LET fund_id == FundIdOf(funds_df, row.name)
        record(c) == [fund_id |-> fund_id[1],
                      fund_name |-> row.name,
                      date |-> to_datetime_dmy(date_cols[c]),
                      monthly_return |-> row.cells[c][1]]
        RECURSIVE from(_, _)
        from(c, acc) ==
            IF c > Len(date_cols) THEN acc
            ELSE from(c + 1, IF row.cells[c] # None THEN Append(acc, record(c))
                             ELSE acc)
    IN  IF row.name = "Local Funds" \/ fund_id = None THEN <<>>
        ELSE from(1, <<>>)

RECURSIVE InsertByFundAndDate(_, _)
InsertByFundAndDate(s, row) ==
    IF Len(s) = 0
       \/ Last(s).fund_id < row.fund_id
       \/ (Last(s).fund_id = row.fund_id /\ Last(s).date <= row.date)
    THEN Append(s, row)
    ELSE Append(InsertByFundAndDate(Front(s), row), Last(s))

\* sort_values(['fund_id', 'date'])
RECURSIVE SortByFundAndDate(_)
SortByFundAndDate(s) ==
    IF Len(s) = 0 THEN <<>>
    ELSE InsertByFundAndDate(SortByFundAndDate(Front(s)), Last(s))

\* MorningstarParser._process_returns: one record per non-empty cell,
\* sorted by fund and date; sort_values raises on a frame without records
_process_returns(df, date_cols, funds_df) ==
    LET RECURSIVE from(_, _)
        from(idx, returns_list) ==
            IF idx > Len(df) THEN returns_list
            ELSE from(idx + 1,
                      returns_list \o RowRecords(df[idx], date_cols, funds_df))
        returns_list == from(1, <<>>)
    IN  IF Len(returns_list) = 0 THEN [raised |-> TRUE]
        ELSE [raised |-> FALSE, returns_df |-> SortByFundAndDate(returns_list)]

\* MorningstarParser.parse_excel
parse_excel(file_obj) ==
    LET funds_df == _process_funds(file_obj)
        returns == _process_returns(file_obj, DateColumns, funds_df)
    IN  IF returns.raised THEN [raised |-> TRUE]
        ELSE [raised |-> FALSE, funds_df |-> funds_df,
              returns_df |-> returns.returns_df]

\* a store that adds the new frames to the ones it holds
set_data_merged(funds_df, returns_df_arg) ==
    [_funds_df |-> <<(IF _funds_df = None THEN <<>> ELSE _funds_df[1]) \o funds_df>>,
     _returns_df |->
         <<(IF _returns_df = None THEN <<>> ELSE _returns_df[1]) \o returns_df_arg>>,
     _upload_timestamp |-> <<now'>>]

\* DataStore.set_data: the store after the call, stamped with the time of
\* the call
set_data(funds_df, returns_df_arg) ==
    [_funds_df |-> <<funds_df>>,
     _returns_df |-> <<returns_df_arg>>,
     _upload_timestamp |-> <<now'>>]

\* DataStore.has_data
has_data == _funds_df # None /\ _returns_df # None

DateSet(df) == {df[i].date : i \in 1..Len(df)}

\* returns_df['date'].min()
MinDate(df) == CHOOSE d \in DateSet(df) : \A e \in DateSet(df) : d <= e

\* the summary of an upload's response, taken from the parsed frames
UploadSummary(funds_df, returns_df_arg) ==
    [total_funds |-> Len(funds_df),
     date_range |-> [start |-> strftime(MinDate(returns_df_arg)),
                     end |-> strftime(MaxDate(returns_df_arg))],
     total_periods |-> Cardinality(DateSet(returns_df_arg))]

\* variant: a file that cannot be processed empties the store
upload_morningstar_file_clearing(file) ==
    IF file.filename[2] \notin {"xlsx", "xls"}
    THEN /\ response' = [kind |-> "upload", status |-> 400]
         /\ UNCHANGED <<_funds_df, _returns_df, _upload_timestamp>>
    ELSE LET parsed == parse_excel(file.rows)
             stored == set_data(parsed.funds_df, parsed.returns_df)
         IN  IF parsed.raised
             THEN /\ response' = [kind |-> "upload", status |-> 500]
                  /\ _funds_df' = None
                  /\ _returns_df' = None
                  /\ _upload_timestamp' = None
             ELSE /\ _funds_df' = stored._funds_df
                  /\ _returns_df' = stored._returns_df
                  /\ _upload_timestamp' = stored._upload_timestamp
                  /\ response' = [kind |-> "upload", status |-> 200,
                                  summary |-> UploadSummary(parsed.funds_df,
                                                            parsed.returns_df)]

\* POST /api/upload
upload_morningstar_file(file) ==
    IF file.filename[2] \notin {"xlsx", "xls"}
    THEN /\ response' = [kind |-> "upload", status |-> 400]
         /\ UNCHANGED <<_funds_df, _returns_df, _upload_timestamp>>
    ELSE LET parsed == parse_excel(file.rows)
             stored == set_data(parsed.funds_df, parsed.returns_df)
         IN  IF parsed.raised
             THEN /\ response' = [kind |-> "upload", status |-> 500]
                  /\ UNCHANGED <<_funds_df, _returns_df, _upload_timestamp>>
             ELSE /\ _funds_df' = stored._funds_df
                  /\ _returns_df' = stored._returns_df
                  /\ _upload_timestamp' = stored._upload_timestamp
                  /\ response' = [kind |-> "upload", status |-> 200,
                                  summary |-> UploadSummary(parsed.funds_df,
                                                            parsed.returns_df)]

\* an upload, at the time the clock has reached when it is served
Upload ==
    /\ response.kind = "none"
    /\ \E file \in Files, at \in now..MaxTicks :
           /\ now' = at
           /\ upload_morningstar_file(file)
           /\ uploaded' = IF response'.status # 200 THEN uploaded
                          ELSE IF uploaded = None THEN <<file, 1>>
                          ELSE <<file, 2>>
    /\ UNCHANGED <<calc_vars, page_vars>>

\* DELETE /api/data: DataStore.clear_data
ClearData ==
    /\ response.kind = "none"
    /\ _funds_df' = None
    /\ _returns_df' = None
    /\ _upload_timestamp' = None
    /\ response' = [kind |-> "clear", status |-> 200]
    /\ uploaded' = None
    /\ UNCHANGED <<calc_vars, page_vars, now>>

\* a dependency that answers "not found" when no data is loaded
require_data_not_found == IF ~has_data THEN <<404>> ELSE None

\* require_data, the dependency of the fund endpoints: the status of the
\* HTTPException it raises, if any
require_data == IF ~has_data THEN <<400>> ELSE None

\* DataStore.get_fund_by_id
get_fund_by_id(fund_id) ==
    IF _funds_df = None THEN None
    ELSE LET fund == Filter(_funds_df[1],
                            {row \in Rows(_funds_df[1]) : row.fund_id = fund_id})
         IN  IF Len(fund) > 0 THEN <<fund[1]>> ELSE None

\* DataStore.get_returns_by_fund_id with both bounds exclusive
get_returns_by_fund_id_exclusive(fund_id, start_date, end_date) ==
    IF _returns_df = None THEN None
    ELSE LET returns == Filter(_returns_df[1],
                               {row \in Rows(_returns_df[1]) : row.fund_id = fund_id})
             from_start ==
                 IF start_date # <<>>
                 THEN Filter(returns,
                             {row \in Rows(returns) : row.date > to_datetime(start_date)})
                 ELSE returns
         IN  <<IF end_date # <<>>
               THEN Filter(from_start,
                           {row \in Rows(from_start) : row.date < to_datetime(end_date)})
               ELSE from_start>>

\* DataStore.get_returns_by_fund_id; an absent bound is None or ''
get_returns_by_fund_id(fund_id, start_date, end_date) ==
    IF _returns_df = None THEN None
    ELSE LET returns == Filter(_returns_df[1],
                               {row \in Rows(_returns_df[1]) : row.fund_id = fund_id})
             from_start ==
                 IF start_date # <<>>
                 THEN Filter(returns,
                             {row \in Rows(returns) : row.date >= to_datetime(start_date)})
                 ELSE returns
         IN  <<IF end_date # <<>>
               THEN Filter(from_start,
                           {row \in Rows(from_start) : row.date <= to_datetime(end_date)})
               ELSE from_start>>

\* the fund ids and the ISO dates a request may carry
RequestFundIds == 1..(MaxFunds + 1)

RequestDates ==
    {<<>>, <<2020, 1, 31>>, <<2020, 2, 15>>, <<2020, 2, 29>>, <<2020, 3, 31>>}

\* GET /api/funds with its default parameters
GetFunds ==
    /\ response.kind = "none"
    /\ response' =
           IF require_data # None
           THEN [kind |-> "funds", endpoint |-> "GET /api/funds",
                 status |-> require_data[1]]
           ELSE [kind |-> "funds", endpoint |-> "GET /api/funds",
                 status |-> 200,
                 total |-> Len(_funds_df[1]), funds |-> _funds_df[1]]
    /\ UNCHANGED <<calc_vars, page_vars, store_vars>>

\* GET /api/funds/{fund_id}
GetFundDetail ==
    /\ response.kind = "none"
    /\ \E fund_id \in RequestFundIds :
           response' =
               IF require_data # None
               THEN [kind |-> "funds", endpoint |-> "GET /api/funds/{fund_id}",
                     status |-> require_data[1]]
               ELSE LET fund == get_fund_by_id(fund_id)
                        returns == get_returns_by_fund_id(fund_id, <<>>, <<>>)
                    IN  IF fund = None
                        THEN [kind |-> "funds",
                              endpoint |-> "GET /api/funds/{fund_id}",
                              status |-> 404]
                        ELSE [kind |-> "funds",
                              endpoint |-> "GET /api/funds/{fund_id}",
                              status |-> 200,
                              fund |-> fund[1],
                              inception_date |->
                                  IF returns # None /\ Len(returns[1]) > 0
                                  THEN <<strftime(MinDate(returns[1]))>>
                                  ELSE None]
    /\ UNCHANGED <<calc_vars, page_vars, store_vars>>

\* POST /api/funds/compare
CompareFunds ==
    /\ response.kind = "none"
    /\ \E fund_ids \in SUBSET RequestFundIds :
           response' =
               IF require_data # None
               THEN [kind |-> "funds", endpoint |-> "POST /api/funds/compare",
                     status |-> require_data[1]]
               ELSE LET selected_funds ==
                            Filter(_funds_df[1],
                                   {row \in Rows(_funds_df[1]) : row.fund_id \in fund_ids})
                    IN  IF Len(selected_funds) = 0
                        THEN [kind |-> "funds",
                              endpoint |-> "POST /api/funds/compare",
                              status |-> 404]
                        ELSE [kind |-> "funds",
                              endpoint |-> "POST /api/funds/compare",
                              status |-> 200,
                              fund_ids |-> fund_ids,
                              funds |-> selected_funds]
    /\ UNCHANGED <<calc_vars, page_vars, store_vars>>

\* getReturns of services/api.js: a falsy bound is left out of the query
QueryParam(value) == IF value = <<>> THEN None ELSE <<value>>

\* the bound get_returns_by_fund_id receives for a query parameter
ParamOrNone(param) == IF param = None THEN <<>> ELSE param[1]

\* getReturns(fundId, startDate, endDate) served by
\* DataStore.get_returns_by_fund_id
GetReturns ==
    /\ response.kind = "none"
    /\ \E fund_id \in RequestFundIds, startDate \in RequestDates,
          endDate \in RequestDates :
           LET params == [start_date |-> QueryParam(startDate),
                          end_date |-> QueryParam(endDate)]
           IN  response' =
                   [kind |-> "returns_by_fund",
                    fund_id |-> fund_id,
                    start_date |-> startDate,
                    end_date |-> endDate,
                    returns |->
                        get_returns_by_fund_id(fund_id,
                                               ParamOrNone(params.start_date),
                                               ParamOrNone(params.end_date))]
    /\ UNCHANGED <<calc_vars, page_vars, store_vars>>

(***************************************************************************)
(* The correlation matrix of POST /api/risk/correlation-matrix, which      *)
(* services/api.js calls and Comparison/CorrelationMatrix.js renders; the  *)
(* computation follows section 4.5 of the specification.                   *)
(***************************************************************************)
\* the correlation periods (months) the compare page offers
CorrelationWindows == {36, 60, 120}

\* fewest paired observations for which a coefficient is computed
MinOverlap == 2

\* a coefficient is <<sign, n, d>>, standing for sign * sqrt(n / d)
UnitCoefficient == <<1, 1, 1>>

Sign(x) == IF x < 0 THEN -1 ELSE IF x > 0 THEN 1 ELSE 0

\* the Pearson correlation coefficient of paired returns; unavailable below
\* MinOverlap pairs and where a side does not vary
Pearson(xs, ys) ==
    LET n == Len(xs)
        RECURSIVE dot(_, _, _)
        dot(a, b, i) == IF i > n THEN 0 ELSE a[i] * b[i] + dot(a, b, i + 1)
        ones == [i \in 1..n |-> 1]
        cov == n * dot(xs, ys, 1) - dot(xs, ones, 1) * dot(ys, ones, 1)
        var_x == n * dot(xs, xs, 1) - dot(xs, ones, 1) * dot(xs, ones, 1)
        var_y == n * dot(ys, ys, 1) - dot(ys, ones, 1) * dot(ys, ones, 1)
    IN  IF n < MinOverlap \/ var_x = 0 \/ var_y = 0 THEN None
        ELSE <<Sign(cov), Rat(cov * cov, var_x * var_y)[1],
               Rat(cov * cov, var_x * var_y)[2]>>

\* the observations of the trailing window: those dated within
\* window_months before the latest date of the series involved
WithinWindow(series, latest, window_months) ==
    Filter(series,
           {row \in Rows(series) : row.date > DateOffsetMonths(latest, window_months)})

\* the coefficient of one unordered pair of series: Pearson over the dates
\* present in both
PairCoefficient(series_a, series_b) ==
    LET common == DateSet(series_a) \cap DateSet(series_b)
        paired_a == Filter(series_a, {row \in Rows(series_a) : row.date \in common})
        paired_b == Filter(series_b, {row \in Rows(series_b) : row.date \in common})
    IN  Pearson(MonthlyReturns(paired_a), MonthlyReturns(paired_b))

\* a matrix whose diagonal is computed like any other entry
correlation_matrix_computed_diagonal(funds, series) ==
    [a \in {funds[i].fund_name : i \in 1..Len(funds)} |->
        [b \in {funds[i].fund_name : i \in 1..Len(funds)} |->
            LET i == CHOOSE k \in 1..Len(funds) : funds[k].fund_name = a
                j == CHOOSE k \in 1..Len(funds) : funds[k].fund_name = b
            IN  PairCoefficient(series[Min(i, j)], series[IF i <= j THEN j ELSE i])]]

\* the matrix over the names of the funds: the diagonal forced to 1.0, every
\* other entry the coefficient computed once for the unordered pair
correlation_matrix(funds, series) ==
    [a \in {funds[i].fund_name : i \in 1..Len(funds)} |->
        [b \in {funds[i].fund_name : i \in 1..Len(funds)} |->
            LET i == CHOOSE k \in 1..Len(funds) : funds[k].fund_name = a
                j == CHOOSE k \in 1..Len(funds) : funds[k].fund_name = b
            IN  IF i = j THEN UnitCoefficient
                ELSE PairCoefficient(series[Min(i, j)],
                                     series[IF i <= j THEN j ELSE i])]]

\* value.toFixed(2) of a coefficient, in hundredths
ToFixed2(value) ==
    LET k == CHOOSE h \in 0..100 :
                 /\ (2 * h - 1) * (2 * h - 1) * value[3] <= 40000 * value[2]
                 /\ 40000 * value[2] < (2 * h + 1) * (2 * h + 1) * value[3]
    IN  value[1] * k

\* Comparison/CorrelationMatrix.js: one cell per ordered pair of fund names;
\* toFixed raises on a null entry
CorrelationMatrix(correlationData, fundNames) ==
    IF Len(fundNames) < 2 THEN [kind |-> "no-data"]
    ELSE IF \E i, j \in 1..Len(fundNames) :
                correlationData[fundNames[i]][fundNames[j]] = None
    THEN [kind |-> "error"]
    ELSE [kind |-> "table",
          cells |-> [i \in 1..Len(fundNames) |->
                        [j \in 1..Len(fundNames) |->
                            ToFixed2(correlationData[fundNames[i]][fundNames[j]])]]]

\* the lists of distinct fund ids a comparison may request
FundIdLists ==
    {ids \in UNION {[1..n -> RequestFundIds] : n \in 1..MaxFunds} :
        \A i, j \in 1..Len(ids) : i # j => ids[i] # ids[j]}

\* the requested funds that exist, in the order requested
FoundFunds(fund_ids) ==
    LET RECURSIVE from(_, _)
        from(i, acc) ==
            IF i > Len(fund_ids) THEN acc
            ELSE from(i + 1, IF get_fund_by_id(fund_ids[i]) = None THEN acc
                             ELSE Append(acc, get_fund_by_id(fund_ids[i])[1]))
    IN  from(1, <<>>)

\* POST /api/risk/correlation-matrix and the table shown for its result
GetCorrelationMatrix ==
    /\ response.kind = "none"
    /\ \E fund_ids \in FundIdLists, start_date \in {<<>>, <<2020, 2, 29>>},
          window_months \in CorrelationWindows :
           response' =
               IF require_data # None
               THEN [kind |-> "correlation", status |-> require_data[1]]
               ELSE LET funds == FoundFunds(fund_ids)
                        bounded ==
                            [i \in 1..Len(funds) |->
                                get_returns_by_fund_id(funds[i].fund_id,
                                                       start_date, <<>>)[1]]
                        latest == MaxDate(_returns_df[1])
                        series ==
                            [i \in 1..Len(funds) |->
                                WithinWindow(bounded[i], latest, window_months)]
                        matrix == correlation_matrix(funds, series)
                        fund_names == [i \in 1..Len(funds) |-> funds[i].fund_name]
                    IN  IF Len(funds) = 0
                        THEN [kind |-> "correlation", status |-> 404]
                        ELSE [kind |-> "correlation", status |-> 200,
                              fund_ids |-> fund_ids,
                              window_months |-> window_months,
                              fund_names |-> fund_names,
                              correlation_matrix |-> matrix,
                              table |-> CorrelationMatrix(matrix, fund_names)]
    /\ UNCHANGED <<calc_vars, page_vars, store_vars>>

\* the response has been sent
Deliver ==
    /\ response.kind # "none"
    /\ response' = [kind |-> "none"]
    /\ UNCHANGED <<calc_vars, page_vars, store_vars>>

StoreInit == Init

StoreNext ==
    \/ Upload
    \/ ClearData
    \/ GetFunds
    \/ GetFundDetail
    \/ CompareFunds
    \/ GetReturns
    \/ GetCorrelationMatrix
    \/ Deliver

StoreSpec == StoreInit /\ [][StoreNext]_vars

(***************************************************************************)
(* The compare page (pages/ComparePage.js) with its fund selector and its  *)
(* date range picker, and the requests of services/api.js it issues.  An   *)
(* ISO date string is <<year, month, day>>; null and '' are <<>>.          *)
(***************************************************************************)
\* number of times the page calls loadComparisonData
MaxStarted == 2

\* the funds getFunds answers the selector's loadFunds with
AllFunds == 1..MaxFunds
\* the maxFunds the page passes to its FundSelector
maxFunds == 10
\* the dates a user may type into the custom inputs
CustomDates == {<<2020, 1, 31>>, <<2020, 3, 31>>}
\* the browser's offset from UTC in hours
TimezoneOffset == 2
\* the UTC date at which the page is opened and the UTC hour of every event
ClockStart == <<2024, 2, 28>>
ClockHour == 23
\* the files that define a DateRangePicker
PickerFiles == {"DateRangePicker.js", "TotalReturnChart.js"}

NextDay(date) ==
    IF DayOf(date) < DaysInMonth(MonthIndex(date)) THEN date + 1
    ELSE (MonthIndex(date) + 1) * 32 + 1

PrevDay(date) ==
    IF DayOf(date) > 1 THEN date - 1 ELSE MonthEnd(MonthIndex(date) - 1)

\* the UTC date of the instant the clock shows
RECURSIVE UtcDate(_)
UtcDate(ticks) ==
    IF ticks = 0 THEN to_datetime(ClockStart) ELSE NextDay(UtcDate(ticks - 1))

\* getFullYear/getMonth/getDate of new Date(): the local date of the instant
LocalDate(ticks) ==
    IF ClockHour + TimezoneOffset >= 24 THEN NextDay(UtcDate(ticks)) ELSE UtcDate(ticks)

\* new Date(year, month, day): local midnight of that day, a day beyond the
\* end of the month running into the next month
NewDate(year, month, day) ==
    LET mi == year * 12 + month
    IN  IF day <= DaysInMonth(mi) THEN mi * 32 + day
        ELSE (mi + 1) * 32 + (day - DaysInMonth(mi))

\* toISOString().split('T')[0] of a local midnight: its UTC date
ToISODate(local_midnight) ==
    strftime(IF TimezoneOffset > 0 THEN PrevDay(local_midnight) ELSE local_midnight)

\* the local date of new Date('YYYY-MM-DD'), which is midnight UTC
ParsedLocalDate(date_str) ==
    IF TimezoneOffset < 0 THEN PrevDay(to_datetime(date_str)) ELSE to_datetime(date_str)

\* years back from the end date for a preset
PresetYears(preset) ==
    IF preset = "1Y" THEN 1 ELSE IF preset = "3Y" THEN 3
    ELSE IF preset = "5Y" THEN 5 ELSE 10

\* the range handlePresetChange passes on for a preset other than CUSTOM,
\* from the local date the start is counted back from and the end date string
RangeOf(preset, end_local, end_str) ==
    IF preset = "YTD"
    THEN [startDate |-> ToISODate(NewDate(MonthIndex(end_local) \div 12, 0, 1)),
          endDate |-> end_str, preset |-> preset]
    ELSE IF preset \in {"1Y", "3Y", "5Y", "10Y"}
    THEN [startDate |->
              ToISODate(NewDate((MonthIndex(end_local) \div 12) - PresetYears(preset),
                                MonthIndex(end_local) % 12, DayOf(end_local))),
          endDate |-> end_str, preset |-> preset]
    ELSE [startDate |-> <<>>, endDate |-> <<>>, preset |-> preset]

\* the range of handlePresetChange at a given reading of the clock: the
\* picker of DateRangePicker.js counts from new Date(), the one of
\* TotalReturnChart.js from dataEndDate, or without it from the UTC date of
\* new Date()
PresetRange(file, preset, dataEndDate, ticks) ==
    IF file = "TotalReturnChart.js"
    THEN LET endDateStr == IF dataEndDate # <<>> THEN dataEndDate
                           ELSE strftime(UtcDate(ticks))
         IN  RangeOf(preset, ParsedLocalDate(endDateStr), endDateStr)
    ELSE RangeOf(preset, LocalDate(ticks), strftime(UtcDate(ticks)))

\* the picker as mounted for a page whose range has the given preset
MountedPicker(file, preset) ==
    [file |-> file, mounted |-> TRUE, selectedPreset |-> preset,
     customStartDate |-> <<>>, customEndDate |-> <<>>, showCustom |-> FALSE,
     dataEndDate |-> <<>>, fetching |-> file = "TotalReturnChart.js"]

UnmountedPicker(file) ==
    [file |-> file, mounted |-> FALSE, selectedPreset |-> "ALL",
     customStartDate |-> <<>>, customEndDate |-> <<>>, showCustom |-> FALSE,
     dataEndDate |-> <<>>, fetching |-> FALSE]

\* the requests one loadComparisonData passes to Promise.all, as
\* services/api.js sends them
Requests(load) ==
    LET body == [fund_ids |-> load.fundIds, start_date |-> load.startDate,
                 end_date |-> load.endDate]
        params == [start_date |-> QueryParam(load.startDate),
                   end_date |-> QueryParam(load.endDate)]
        RECURSIVE perFund(_)
        perFund(i) ==
            IF i > Len(load.fundIds) THEN <<>>
            ELSE <<[call |-> "getRiskMetrics", url |-> "/risk/{fund_id}",
                    fund_id |-> load.fundIds[i], params |-> params],
                   [call |-> "getDrawdownSeries", url |-> "/risk/{fund_id}/drawdown",
                    fund_id |-> load.fundIds[i], params |-> params]>>
                 \o perFund(i + 1)
    IN  <<[call |-> "comparePerformance", url |-> "/performance/compare",
           body |-> body],
          [call |-> "getMultipleReturns", url |-> "/returns/multiple",
           body |-> body],
          [call |-> "getRollingReturns", url |-> "/performance/rolling-returns",
           body |-> body, window_months |-> 12],
          [call |-> "getCorrelationMatrix", url |-> "/risk/correlation-matrix",
           body |-> body]>> \o perFund(1)

\* the ComparePage effect on selectedFunds, dateRange and correlationPeriod,
\* run on the page state a handler has produced: loadComparisonData up to
\* its await, or the reset of the data when no fund is selected
useEffect(changed) ==
    IF Len(changed.selectedFunds) > 0
    THEN /\ page' = [changed EXCEPT !.loading = TRUE, !.error = <<>>]
         /\ started' = started + 1
         /\ loads' = Append(loads, [fundIds |-> changed.selectedFunds,
                                    startDate |-> changed.dateRange.startDate,
                                    endDate |-> changed.dateRange.endDate,
                                    correlationPeriod |-> changed.correlationPeriod])
    ELSE /\ page' = [changed EXCEPT !.performanceData = <<>>,
                                    !.returnsData = <<>>,
                                    !.rollingReturnsData = <<>>,
                                    !.correlationData = <<>>,
                                    !.riskData = <<>>,
                                    !.drawdownData = <<>>]
         /\ UNCHANGED <<loads, started>>

\* the funds of the dropdown, for a search term every fund name contains:
\* the listed funds that are not selected
filteredFunds_listed == allFunds

filteredFunds ==
    {fund \in allFunds :
        ~ \E i \in 1..Len(page.selectedFunds) : page.selectedFunds[i] = fund}

\* FundSelector.handleAddFund for a fund of the dropdown; the page mounts
\* its date range picker with the first selected fund
HandleAddFund ==
    /\ started < MaxStarted
    /\ \E fund \in filteredFunds :
           /\ added' = <<[fund |-> fund, selectedFunds |-> page.selectedFunds]>>
           /\ IF Len(page.selectedFunds) < maxFunds
              THEN useEffect([page EXCEPT !.selectedFunds = Append(@, fund)])
              ELSE UNCHANGED <<page, loads, started>>
    /\ picker' = IF picker.mounted THEN picker
                 ELSE MountedPicker(picker.file, page.dateRange.preset)
    /\ UNCHANGED <<calc_vars, response, store_vars, allFunds, picked, outcome>>

\* FundSelector.handleRemoveFund for a selected fund
HandleRemoveFund ==
    /\ started < MaxStarted
    /\ \E fundId \in {page.selectedFunds[i] : i \in 1..Len(page.selectedFunds)} :
           useEffect([page EXCEPT !.selectedFunds =
                          Filter(@, {f \in Rows(@) : f # fundId})])
    /\ picker' = IF Len(page'.selectedFunds) > 0 THEN picker
                 ELSE UnmountedPicker(picker.file)
    /\ UNCHANGED <<calc_vars, response, store_vars, allFunds, added, picked, outcome>>

\* the mount effect of the picker of TotalReturnChart.js: getDataStatus
\* answers with the end of the loaded data, with no data, or fails
FetchDataStatus ==
    /\ picker.mounted /\ picker.fetching
    /\ \E end \in {<<>>, <<2020, 3, 31>>} :
           picker' = [picker EXCEPT !.fetching = FALSE, !.dataEndDate = end]
    /\ UNCHANGED <<calc_vars, response, store_vars, allFunds, added, page, loads, picked,
                   outcome, started>>

\* DateRangePicker.handlePresetChange, at the time the clock has reached
\* when the button is clicked
HandlePresetChange ==
    /\ started < MaxStarted
    /\ picker.mounted
    /\ \E preset \in {"ALL", "YTD", "1Y", "3Y", "5Y", "10Y", "CUSTOM"},
          today \in now..MaxTicks :
           /\ now' = today
           /\ IF preset = "CUSTOM"
              THEN /\ picker' = [picker EXCEPT !.selectedPreset = preset,
                                               !.showCustom = TRUE]
                   /\ UNCHANGED <<page, loads, picked, started>>
              ELSE /\ picker' = [picker EXCEPT !.selectedPreset = preset,
                                               !.showCustom = FALSE]
                   /\ useEffect([page EXCEPT !.dateRange =
                                     PresetRange(picker.file, preset,
                                                 picker.dataEndDate, today)])
                   /\ picked' = <<[preset |-> preset,
                                   dataEndDate |-> picker.dataEndDate]>>
    /\ UNCHANGED <<calc_vars, response, _funds_df, _returns_df,
                   _upload_timestamp, uploaded, outcome, allFunds, added>>

\* the custom date inputs
SetCustomDate ==
    /\ started < MaxStarted
    /\ picker.mounted /\ picker.showCustom
    /\ \E date \in CustomDates :
           \/ picker' = [picker EXCEPT !.customStartDate = date]
           \/ picker' = [picker EXCEPT !.customEndDate = date]
    /\ UNCHANGED <<calc_vars, response, store_vars, allFunds, added, page, loads, picked,
                   outcome, started>>

\* DateRangePicker.handleCustomApply
HandleCustomApply ==
    /\ started < MaxStarted
    /\ picker.mounted /\ picker.showCustom
    /\ IF picker.customStartDate # <<>> /\ picker.customEndDate # <<>>
       THEN useEffect([page EXCEPT !.dateRange =
                           [startDate |-> picker.customStartDate,
                            endDate |-> picker.customEndDate,
                            preset |-> "CUSTOM"]])
       ELSE UNCHANGED <<page, loads, started>>
    /\ UNCHANGED <<calc_vars, response, store_vars, allFunds, added, picker, picked, outcome>>

\* the correlation period buttons, shown with the matrix of two funds or
\* more; setting the period it already has does not run the effect
SetCorrelationPeriod ==
    /\ started <= MaxStarted
    /\ page.correlationData # <<>>
    /\ Len(page.correlationData[1].body.fund_ids) >= 2
    /\ \E period \in CorrelationWindows :
           IF period = page.correlationPeriod
           THEN UNCHANGED <<page, loads, started>>
           ELSE useEffect([page EXCEPT !.correlationPeriod = period])
    /\ UNCHANGED <<calc_vars, response, store_vars, allFunds, added, picker, picked, outcome>>

\* the message loadComparisonData shows for a request rejected with a
\* detail string: err.response.data.detail
ErrorMessage(detail) == <<detail>>

\* the requests of a load that ask for the risk metrics of one fund
RiskRequests(load) ==
    {k \in 1..Len(Requests(load)) : Requests(load)[k].call = "getRiskMetrics"}

\* the responses of the requests of a load, each standing for the answer to
\* its request
Responses(load) == [k \in 1..Len(Requests(load)) |-> <<Requests(load)[k]>>]

\* the page after the setters loadComparisonData calls with the responses
\* of a load
SetData(p, load) ==
    LET n == Len(load.fundIds)
        responses == Responses(load)
    IN  [p EXCEPT !.performanceData = responses[1],
                  !.returnsData = responses[2],
                  !.rollingReturnsData = responses[3],
                  !.correlationData = responses[4],
                  !.riskData = <<[i \in 1..n |-> responses[4 + 2 * i - 1][1]]>>,
                  !.drawdownData = <<[i \in 1..n |-> responses[4 + 2 * i][1]]>>]

\* loadComparisonData from its await on: either every request is answered
\* and the data is set, or the request for one fund's risk metrics is
\* answered 404 "Fund not found", Promise.all rejects and the message is
\* set; loading is cleared in both cases
CompleteLoad ==
    /\ Len(loads) > 0
    /\ \E k \in 1..Len(loads) :
           LET load == loads[k]
           IN  /\ loads' = SubSeq(loads, 1, k - 1) \o SubSeq(loads, k + 1, Len(loads))
               /\ \E rejected \in {0} \cup RiskRequests(load) :
                      /\ outcome' = <<[load |-> load, rejected |-> rejected]>>
                      /\ page' =
                             IF rejected = 0
                             THEN [SetData(page, load) EXCEPT !.loading = FALSE]
                             ELSE [page EXCEPT !.error =
                                                   ErrorMessage("Fund not found"),
                                               !.loading = FALSE]
    /\ UNCHANGED <<calc_vars, response, store_vars, allFunds, added, picker, picked, started>>

\* the state of the page as its useState calls create it
InitialPage ==
    [selectedFunds |-> <<>>,
     performanceData |-> <<>>, returnsData |-> <<>>,
     rollingReturnsData |-> <<>>, correlationData |-> <<>>,
     riskData |-> <<>>, drawdownData |-> <<>>,
     loading |-> FALSE, error |-> <<>>,
     dateRange |-> [startDate |-> <<>>, endDate |-> <<>>, preset |-> "ALL"],
     correlationPeriod |-> 36]

PageInit ==
    /\ returns_df = <<>>
    /\ gaps = 0
    /\ response = [kind |-> "none"]
    /\ NoData
    /\ page = InitialPage
    /\ \E file \in PickerFiles : picker = UnmountedPicker(file)
    /\ loads = <<>>
    /\ picked = <<>>
    /\ outcome = <<>>
    /\ started = 0
    /\ allFunds = AllFunds
    /\ added = <<>>

PageNext ==
    \/ HandleAddFund
    \/ HandleRemoveFund
    \/ FetchDataStatus
    \/ HandlePresetChange
    \/ SetCustomDate
    \/ HandleCustomApply
    \/ SetCorrelationPeriod
    \/ CompleteLoad

PageSpec == PageInit /\ [][PageNext]_vars

(***************************************************************************)
(* The fund selector on a page whose selection is near its limit: the page *)
(* shows the data of the funds selected so far, and the selector lists one *)
(* fund more than the page allows.                                         *)
(***************************************************************************)
\* the first n of the listed funds, in the order of the list
FirstFunds(n) == [i \in 1..n |-> i]

\* the page once the load of a selection has been answered in full
LoadedPage(selectedFunds) ==
    IF Len(selectedFunds) = 0 THEN InitialPage
    ELSE SetData([InitialPage EXCEPT !.selectedFunds = selectedFunds],
                 [fundIds |-> selectedFunds, startDate |-> <<>>,
                  endDate |-> <<>>, correlationPeriod |-> 36])

SelectorInit ==
    /\ returns_df = <<>>
    /\ gaps = 0
    /\ response = [kind |-> "none"]
    /\ NoData
    /\ allFunds = 1..(maxFunds + 1)
    /\ \E n \in {0, maxFunds - 1, maxFunds} :
           /\ page = LoadedPage(FirstFunds(n))
           /\ picker = IF n = 0 THEN UnmountedPicker("DateRangePicker.js")
                       ELSE MountedPicker("DateRangePicker.js", "ALL")
    /\ loads = <<>>
    /\ picked = <<>>
    /\ outcome = <<>>
    /\ started = 0
    /\ added = <<>>

\* the selector's handlers, the loads they start still awaiting their
\* responses
SelectorNext ==
    \/ HandleAddFund
    \/ HandleRemoveFund

SelectorSpec == SelectorInit /\ [][SelectorNext]_vars

(***************************************************************************)
(* The cumulative returns chart of the compare page: prepareChartData      *)
(* applied to the returnsData the page holds.                              *)
(***************************************************************************)
\* the cumulative returns (percent) of the k-th fund of the response on the
\* dates of DateColumns
ChartValues == <<<<1, -1, 2>>, <<-5, 5, 5>>, <<4, 8, 6>>>>

\* the names a fund of the response may have
ChartNames == {"Fund A", "Fund B"}

\* the responses of getMultipleReturns the page may hold: for each fund its
\* name and its returns on some of the dates, in date order
ReturnsResponses ==
    UNION {{[funds |-> [k \in 1..n |->
                [fund_id |-> k,
                 fund_name |-> names[k],
                 returns |-> Filter([c \in 1..3 |->
                                       [date |-> strftime(to_datetime_dmy(DateColumns[c])),
                                        cumulative_return |-> ChartValues[k][c]]],
                                    {[date |-> strftime(to_datetime_dmy(DateColumns[c])),
                                      cumulative_return |-> ChartValues[k][c]] :
                                         c \in patterns[k]})]]] :
               names \in [1..n -> ChartNames], patterns \in [1..n -> CellPatterns]} :
           n \in 0..MaxFunds}

\* the order of two 'YYYY-MM-DD' strings under Array.prototype.sort
StringLess(a, b) ==
    \/ a[1] < b[1]
    \/ a[1] = b[1] /\ a[2] < b[2]
    \/ a[1] = b[1] /\ a[2] = b[2] /\ a[3] < b[3]

\* Array.from(datesSet).sort()
RECURSIVE SortedDates(_)
SortedDates(datesSet) ==
    IF datesSet = {} THEN <<>>
    ELSE LET first == CHOOSE d \in datesSet :
                          \A e \in datesSet \ {d} : StringLess(d, e)
         IN  <<first>> \o SortedDates(datesSet \ {first})

\* ComparePage.prepareChartData: one data point per date of any fund, in
\* sorted order; the point's `${fund_name}_cumulative` entries are written
\* fund by fund, so that an entry holds what the last fund of that name
\* wrote
prepareChartData(returnsData) ==
    IF returnsData = <<>> \/ Len(returnsData[1].funds) = 0 THEN <<>>
    ELSE LET funds == returnsData[1].funds
             sortedDates ==
                 SortedDates(UNION {{funds[k].returns[i].date :
                                        i \in 1..Len(funds[k].returns)} :
                                    k \in 1..Len(funds)})
             find(fund, date) ==
                 LET found == {i \in 1..Len(fund.returns) :
                                  fund.returns[i].date = date}
                 IN  IF found = {} THEN None
                     ELSE <<fund.returns[CHOOSE i \in found :
                                \A j \in found : i <= j].cumulative_return>>
             keys == {funds[k].fund_name : k \in 1..Len(funds)}
             last(key) == CHOOSE k \in 1..Len(funds) :
                              /\ funds[k].fund_name = key
                              /\ \A j \in (k + 1)..Len(funds) : funds[j].fund_name # key
         IN  [r \in 1..Len(sortedDates) |->
                 [date |-> sortedDates[r],
                  cumulative |-> [key \in keys |->
                                     find(funds[last(key)], sortedDates[r])]]]

\* the page holds the response of getMultipleReturns for the funds it has
\* selected
SetReturnsData ==
    /\ page.returnsData = <<>>
    /\ \E returnsResp \in ReturnsResponses :
           page' = [page EXCEPT
                       !.selectedFunds = [k \in 1..Len(returnsResp.funds) |->
                                             returnsResp.funds[k].fund_id],
                       !.returnsData = <<returnsResp>>]
    /\ UNCHANGED <<calc_vars, response, store_vars, picker, loads, picked,
                   outcome, started, allFunds, added>>

\* the page renders its chart
PrepareChartData ==
    /\ response.kind = "none"
    /\ response' = [kind |-> "chart",
                    chartData |-> prepareChartData(page.returnsData)]
    /\ UNCHANGED <<calc_vars, store_vars, page_vars>>

ChartNext ==
    \/ SetReturnsData
    \/ PrepareChartData

ChartSpec == PageInit /\ [][ChartNext]_vars

(***************************************************************************)
(* Properties.                                                             *)
(***************************************************************************)
\* the product of (1 + r/100) over the series, taken from the last factor
\* back to the first
Compounded(returns) ==
    LET step(acc) ==
            IF Len(acc) = Len(returns) THEN acc
            ELSE Append(acc,
                     IF Len(acc) = 0 THEN RAdd(One, Rat(returns[Len(returns)], 100))
                     ELSE RMul(RAdd(One, Rat(returns[Len(returns) - Len(acc)], 100)),
                               Last(acc)))
        RECURSIVE from(_)
        from(acc) ==
            IF Len(acc) = Len(returns) THEN acc
            ELSE from(step(step(step(step(acc)))))
    IN  IF Len(returns) = 0 THEN One ELSE Last(from(<<>>))

\* C1: for a non-empty series the total return is
\* (product of (1 + r_i/100) - 1) * 100; for [1.0, -2.0, 3.0] it is 1.9494
C1_GeometricCompounding ==
    (response.kind = "returns" /\ Len(returns_df) > 0) =>
        /\ response.total_return =
               RMul(RSub(Compounded(MonthlyReturns(returns_df)), One), Hundred)
        /\ MonthlyReturns(returns_df) = ExampleReturns =>
               response.total_return = Rat(19494, 10000)

C1_Witness ==
    /\ response.kind = "returns"
    /\ MonthlyReturns(returns_df) = ExampleReturns
    /\ response.total_return = Rat(19494, 10000)
    /\ response.total_return # Rat(2, 1)

\* C2: for an empty series the total return and the annualized return are
\* both unavailable (None), never 0
C2_EmptyUnavailable ==
    (response.kind = "returns" /\ Len(returns_df) = 0) =>
        /\ response.total_return = None
        /\ response.annualized_return = None

\* C3: with exactly 12 monthly observations the annualized return equals
\* the total return
C3_TwelveMonthsAnnualizedIsTotal ==
    (response.kind = "returns" /\ Len(returns_df) = 12) =>
        response.annualized_return = response.total_return

C3_Witness ==
    /\ response.kind = "returns"
    /\ Len(returns_df) = 12
    /\ response.total_return # Zero
    /\ response.annualized_return = response.total_return

\* the observations dated strictly after the latest date minus N months
WindowCount(df, months) ==
    Cardinality({i \in 1..Len(df) :
        df[i].date > DateOffsetMonths(Last(df).date, months)})

\* C4: a trailing period whose window holds fewer than N observations is
\* None; a fund with 8 months of history has 3Y = None
C4_InsufficientWindowIsNone ==
    response.kind = "performance" =>
        /\ \A p \in DOMAIN periods :
               (Len(returns_df) = 0 \/ WindowCount(returns_df, periods[p]) < periods[p])
                   => (p \in DOMAIN response.performance
                       /\ response.performance[p] = None)
        /\ Len(returns_df) = 8 => response.performance["3Y"] = None

C4_Witness ==
    /\ response.kind = "performance"
    /\ Len(returns_df) = 8
    /\ response.performance["3Y"] = None
    /\ response.performance["6M"] # None

\* the type tag PerformanceTable gives a label
TypeOf(key) ==
    LET i == CHOOSE j \in 1..Len(PerformanceTable_periods) :
                 PerformanceTable_periods[j].key = key
    IN  IF PerformanceTable_periods[i].annualized THEN "Annualized" ELSE "Cumulative"

\* the value a label has when computed as cumulative / as annualized
AsCumulative(df, key) ==
    calculate_total_return(
        IF key = "ITD" THEN MonthlyReturns(df) ELSE PeriodData(df, periods[key]))

AsAnnualized(df, key) ==
    calculate_annualized_return(
        IF key = "ITD" THEN MonthlyReturns(df) ELSE PeriodData(df, periods[key]), 12)

\* the labels that have a value
Computed(performance) == {p \in DOMAIN performance : performance[p] # None}

C6_NineLabels ==
    response.kind = "performance" =>
        DOMAIN response.performance =
            {"1M", "3M", "6M", "YTD", "1Y", "3Y", "5Y", "10Y", "ITD"}

\* the wealth index after each observation, from the returns
Wealth(df) == cumprod(MonthlyReturns(df))

\* wealth reaches its running maximum at i
AtRunningMax(wealth, i) == \A j \in 1..i : RLe(wealth[j], wealth[i])

\* one drawdown point per observation, every value <= 0, the first 0, and 0
\* wherever the wealth index is at its running maximum
DrawdownShape(df, drawdown_series) ==
    /\ Len(drawdown_series) = Len(df)
    /\ \A i \in 1..Len(drawdown_series) :
           /\ drawdown_series[i].date = df[i].date
           /\ RLe(drawdown_series[i].drawdown, Zero)
    /\ Len(drawdown_series) > 0 => drawdown_series[1].drawdown = Zero
    /\ \A i \in 1..Len(drawdown_series) :
           AtRunningMax(Wealth(df), i) => drawdown_series[i].drawdown = Zero

IndexOf(df, date) == CHOOSE i \in 1..Len(df) : df[i].date = date

\* C8: the peak is the last observation at or before the trough at which
\* the wealth index equals its running maximum
C8_PeakIsLatestHigh ==
    response.kind = "risk" =>
        LET trough == IndexOf(returns_df, response.max_drawdown.trough_date)
            peak == IndexOf(returns_df, response.max_drawdown.peak_date)
        IN  /\ peak <= trough
            /\ AtRunningMax(Wealth(returns_df), peak)
            /\ \A i \in (peak + 1)..trough : ~AtRunningMax(Wealth(returns_df), i)

\* C9: a reported recovery date is strictly after the trough and is the
\* first date after it with wealth at least the peak's; without such a date
\* (including a series that never falls) recovery is none
C9_RecoveryStrictlyAfterTrough ==
    response.kind = "risk" =>
        LET trough == IndexOf(returns_df, response.max_drawdown.trough_date)
            peak == IndexOf(returns_df, response.max_drawdown.peak_date)
            wealth == Wealth(returns_df)
            after == {i \in (trough + 1)..Len(returns_df) : RLe(wealth[peak], wealth[i])}
        IN  IF after = {}
            THEN response.max_drawdown.recovery_date = NoDate
            ELSE /\ response.max_drawdown.recovery_date > response.max_drawdown.trough_date
                 /\ IndexOf(returns_df, response.max_drawdown.recovery_date) \in after
                 /\ \A i \in after :
                        IndexOf(returns_df, response.max_drawdown.recovery_date) <= i

C11_ShortSeriesUnavailable ==
    response.kind = "risk_metrics" =>
        /\ Len(returns_df) < 2 => response.volatility = None
        /\ Cardinality({i \in 1..Len(returns_df) :
                           returns_df[i].monthly_return < 0}) <= 1
               => response.downside_deviation = None

\* C12: the Sharpe ratio is unavailable (None) whenever the annualized
\* volatility is 0 or undefined, and the Sortino ratio whenever the downside
\* deviation is 0 or undefined; neither is 0 there
C12_RatioUnavailableOnZeroRisk ==
    response.kind = "risk_metrics" =>
        /\ (Len(returns_df) < 2 \/ response.volatility = Zero)
               => response.sharpe_ratio = None
        /\ (Cardinality({i \in 1..Len(returns_df) :
                            returns_df[i].monthly_return < 0}) <= 1
            \/ response.downside_deviation = Zero)
               => response.sortino_ratio = None

\* the monthly returns of the observations dated in a year, in series order
ReturnsOfYear(df, year) ==
    LET inYear == {i \in 1..Len(df) : df[i].date \div (12 * 32) = year}
        nth(k) == CHOOSE i \in inYear : Cardinality({j \in inYear : j <= i}) = k
    IN  [k \in 1..Cardinality(inYear) |-> df[nth(k)].monthly_return]

\* C13: the calendar-year mapping has one entry per year with at least one
\* observation and no other entry; each entry is the cumulative compounding
\* of exactly the observations dated in that year; the table shows one row
\* per entry
C13_CalendarYearsCumulative ==
    response.kind = "calendar" =>
        /\ DOMAIN response.calendar_returns =
               {y \in 2000..2100 : \E i \in 1..Len(returns_df) :
                    returns_df[i].date \div (12 * 32) = y}
        /\ \A y \in DOMAIN response.calendar_returns :
               response.calendar_returns[y] =
                   RMul(RSub(Compounded(ReturnsOfYear(returns_df, y)), One), Hundred)
        /\ {response.table[i].year : i \in 1..Len(response.table)}
               = DOMAIN response.calendar_returns
        /\ Len(response.table) = Cardinality(DOMAIN response.calendar_returns)

C13_Witness ==
    /\ response.kind = "calendar"
    /\ Len(returns_df) = 14
    /\ DOMAIN response.calendar_returns = {2020, 2021}
    /\ Len(ReturnsOfYear(returns_df, 2021)) = 3
    /\ response.calendar_returns[2020] # Zero
    /\ response.calendar_returns[2020] #
           calculate_annualized_return(ReturnsOfYear(returns_df, 2020), 12)

\* whether ISO date a is not after ISO date b
IsoLe(a, b) ==
    \/ a[1] < b[1]
    \/ a[1] = b[1] /\ a[2] < b[2]
    \/ a[1] = b[1] /\ a[2] = b[2] /\ a[3] <= b[3]

\* the stored observations of a fund dated within the bounds of a request,
\* in the store's order
ObservationsWithin(fund_id, start_date, end_date) ==
    LET within(row) ==
            /\ row.fund_id = fund_id
            /\ start_date = <<>> \/ IsoLe(start_date, strftime(row.date))
            /\ end_date = <<>> \/ IsoLe(strftime(row.date), end_date)
    IN  SelectSeq(_returns_df[1], within)

\* C18: the returns handed out for a fund and optional bounds are exactly the
\* stored observations of that fund with start_date <= date <= end_date, in
\* the stored order, an absent bound being open; the request leaves the
\* stored frames as they were
C18_DateRangeFiltering ==
    /\ [](response.kind = "returns_by_fund" /\ _returns_df # None
            => /\ response.returns # None
               /\ response.returns[1] =
                      ObservationsWithin(response.fund_id, response.start_date,
                                         response.end_date))
    /\ [][response'.kind = "returns_by_fund"
            => UNCHANGED <<_funds_df, _returns_df>>]_vars

\* a request bounded on both sides by dates of observations returns the two
\* observations on the bounds and leaves out an earlier one
C18_Witness ==
    /\ response.kind = "returns_by_fund"
    /\ _returns_df # None
    /\ response.start_date = <<2020, 2, 29>>
    /\ response.end_date = <<2020, 3, 31>>
    /\ Len(ObservationsWithin(response.fund_id, <<>>, <<>>)) = 3
    /\ Len(response.returns[1]) = 2
    /\ strftime(response.returns[1][1].date) = response.start_date
    /\ strftime(response.returns[1][2].date) = response.end_date

\* C19: while no data is loaded (before the first successful upload and
\* after DELETE /api/data) every fund endpoint answers 400 and hands out no
\* fund data; a fund endpoint succeeds only after a successful upload
C19_FundEndpointsRequireData ==
    response.kind = "funds"
        => /\ uploaded = None
               => /\ response.status = 400
                  /\ DOMAIN response = {"kind", "endpoint", "status"}
           /\ response.status = 200 => uploaded # None

\* POST /api/funds/compare answers 400 while no data is loaded
C19_Witness ==
    /\ response.kind = "funds"
    /\ response.endpoint = "POST /api/funds/compare"
    /\ response.status = 400
    /\ uploaded = None

\* the named rows of an uploaded sheet, in the sheet's order
NamedRows(rows) == SelectSeq(rows, LAMBDA row : row.name # "Local Funds")

\* one record per non-empty cell of an uploaded sheet: the fund's number
\* among the named rows, its name, the ISO date of the column and the value
CellsOf(rows) ==
    {[fund_id |-> k,
      fund_name |-> NamedRows(rows)[k].name,
      date |-> <<DateColumns[c][3], DateColumns[c][2], DateColumns[c][1]>>,
      monthly_return |-> NamedRows(rows)[k].cells[c][1]] :
        <<k, c>> \in {kc \in (1..Len(NamedRows(rows))) \X (1..Len(DateColumns)) :
                          NamedRows(rows)[kc[1]].cells[kc[2]] # None}}

\* the records of a stored returns frame, dates in ISO form
StoredRecords(df) ==
    {[fund_id |-> df[i].fund_id,
      fund_name |-> df[i].fund_name,
      date |-> strftime(df[i].date),
      monthly_return |-> df[i].monthly_return] : i \in 1..Len(df)}

\* C20: the DataStore holds nothing when no upload succeeded since the last
\* clear, and otherwise exactly the funds and the returns of the latest
\* successful upload, one stored record per non-empty cell; requests that
\* read leave the stored data as it was
C20_StoreLifecycle ==
    /\ [](IF uploaded = None
          THEN _funds_df = None /\ _returns_df = None /\ _upload_timestamp = None
          ELSE /\ _funds_df # None /\ _returns_df # None
               /\ _funds_df[1] =
                      [k \in 1..Len(NamedRows(uploaded[1].rows)) |->
                          [fund_id |-> k,
                           fund_name |-> NamedRows(uploaded[1].rows)[k].name]]
               /\ StoredRecords(_returns_df[1]) = CellsOf(uploaded[1].rows)
               /\ Len(_returns_df[1]) = Cardinality(CellsOf(uploaded[1].rows)))
    /\ [][response'.kind \in {"funds", "returns_by_fund"}
            => UNCHANGED <<_funds_df, _returns_df, _upload_timestamp>>]_vars

\* a later upload of a one-fund sheet has replaced the data of an earlier
\* upload, and a request has read the store since
C20_Witness ==
    /\ uploaded # None
    /\ uploaded[2] = 2
    /\ Len(_funds_df[1]) = 1
    /\ Len(_returns_df[1]) = 1
    /\ response.kind = "funds"
    /\ response.status = 200

\* C14: every correlation matrix handed out has an entry for every ordered
\* pair of the fund names it is returned with, 1.0 on the diagonal, and equal
\* entries for (a, b) and (b, a)
C14_CorrelationMatrixSymmetric ==
    response.kind = "correlation" /\ response.status = 200
        => LET names == {response.fund_names[i] :
                            i \in 1..Len(response.fund_names)}
               matrix == response.correlation_matrix
           IN  /\ DOMAIN matrix = names
               /\ \A a \in names :
                      /\ DOMAIN matrix[a] = names
                      /\ matrix[a][a] = UnitCoefficient
                      /\ \A b \in names : matrix[a][b] = matrix[b][a]

\* a matrix of two funds, the second requested first, whose coefficient over
\* three common months is -sqrt(289/532), shown as -0.74
C14_Witness ==
    /\ response.kind = "correlation"
    /\ response.status = 200
    /\ response.fund_names = <<"Fund B", "Fund A">>
    /\ response.correlation_matrix["Fund A"]["Fund B"] = <<-1, 289, 532>>
    /\ response.table.kind = "table"
    /\ response.table.cells[1][2] = -74

\* the answer a load's request for the risk metrics of a fund would get
RiskResponse(load, fund_id) ==
    Responses(load)[CHOOSE k \in RiskRequests(load) :
                        Requests(load)[k].fund_id = fund_id][1]

\* C15: when, in a comparison of several funds, the request for one fund
\* fails, the page still presents the metrics of each of the other funds
\* next to the error
C15_PerFundFailureIsolated ==
    (/\ outcome # <<>>
     /\ loads = <<>>
     /\ outcome[1].rejected # 0
     /\ Len(outcome[1].load.fundIds) > 1)
        => /\ page.error # <<>>
           /\ page.riskData # <<>>
           /\ \A i \in 1..Len(outcome[1].load.fundIds) :
                  LET fund_id == outcome[1].load.fundIds[i]
                  IN  fund_id # Requests(outcome[1].load)[outcome[1].rejected].fund_id
                          => \E j \in 1..Len(page.riskData[1]) :
                                 page.riskData[1][j] =
                                     RiskResponse(outcome[1].load, fund_id)

\* C16: no load is issued for a date range whose start is after its end
C16_InvertedRangeRejected ==
    \A k \in 1..Len(loads) :
        loads[k].startDate # <<>> /\ loads[k].endDate # <<>>
            => IsoLe(loads[k].startDate, loads[k].endDate)

\* C17: the range a preset gives depends on the preset and the loaded data
\* only: it is the range the same choice gives when the page is opened,
\* whatever the time of the choice
C17_PresetRangeIndependentOfClock ==
    picked # <<>> /\ page.dateRange.preset = picked[1].preset
        => page.dateRange =
               PresetRange(picker.file, picked[1].preset, picked[1].dataEndDate, 0)

\* C21: after any sequence of add-fund and remove-fund actions the
\* selection holds at most 10 funds and no fund twice, and a call of
\* handleAddFund that finds 10 funds selected leaves the selection as it is
C21_SelectionBounded ==
    /\ [](/\ Len(page.selectedFunds) <= 10
          /\ \A i, j \in 1..Len(page.selectedFunds) :
                 page.selectedFunds[i] = page.selectedFunds[j] => i = j)
    /\ [][added' # added /\ Len(page.selectedFunds) = 10
              => page'.selectedFunds = page.selectedFunds]_vars

\* an eleventh fund was added to a selection of ten, which is still the
\* selection
C21_Witness ==
    /\ added # <<>>
    /\ Len(added[1].selectedFunds) = 10
    /\ page.selectedFunds = added[1].selectedFunds
    /\ \A i \in 1..10 : page.selectedFunds[i] # added[1].fund

\* what a request to /risk/correlation-matrix sends besides the funds and
\* the date range
WindowParameters(request) ==
    {request.body[field] :
        field \in DOMAIN request.body \ {"fund_ids", "start_date", "end_date"}}

\* the correlation request of a load in flight
CorrelationRequest(load) ==
    CHOOSE request \in Rows(Requests(load)) : request.call = "getCorrelationMatrix"

\* C22: the selected correlation window is one of 36, 60 and 120 months,
\* and the correlation request of a load started after the window was
\* changed carries the window it was started with
C22_CorrelationRequestCarriesWindow ==
    /\ page.correlationPeriod \in CorrelationWindows
    /\ \A k \in 1..Len(loads) :
           loads[k].correlationPeriod # InitialPage.correlationPeriod
               => WindowParameters(CorrelationRequest(loads[k]))
                      = {loads[k].correlationPeriod}

\* the greatest of the first i values of the wealth index
RunningMaxAt(wealth, i) ==
    CHOOSE m \in {wealth[j] : j \in 1..i} : \A j \in 1..i : RLe(wealth[j], m)

\* C23: for a series whose running maxima are positive, the wealth index
\* rebuilt from the drawdown series as running_max * (1 + drawdown / 100) is
\* the wealth index of the returns at every point, and (wealth - 1) * 100 is
\* the cumulative return calculate_drawdown_series was given
C23_DrawdownRoundTrip ==
    (/\ response.kind = "drawdown"
     /\ \A i \in 1..Len(returns_df) :
            RLt(Zero, RunningMaxAt(Wealth(returns_df), i)))
        => \A i \in 1..Len(returns_df) :
               LET rebuilt ==
                       RMul(RunningMaxAt(Wealth(returns_df), i),
                            RAdd(One, RDiv(response.drawdown_series[i].drawdown,
                                           Hundred)))
               IN  /\ rebuilt = Wealth(returns_df)[i]
                   /\ RMul(RSub(rebuilt, One), Hundred)
                          = calculate_cumulative_returns_series(
                                MonthlyReturns(returns_df))[i]

\* a series that rises, falls below its high and stays below it
C23_Witness ==
    /\ response.kind = "drawdown"
    /\ Len(returns_df) >= 3
    /\ \A i \in 1..Len(returns_df) :
           RLt(Zero, RunningMaxAt(Wealth(returns_df), i))
    /\ RLt(Wealth(returns_df)[1], Wealth(returns_df)[2])
    /\ RLt(response.drawdown_series[3].drawdown, Zero)
    /\ RLt(Wealth(returns_df)[3], One)

\* the last n monthly returns of the series
Trailing(df, n) == MonthlyReturns(SubSeq(df, Len(df) - n + 1, Len(df)))

\* C24: on a gap-free series of month-end observations, whatever the month
\* of the latest one, the trailing N-month window of calculate_period_returns
\* holds exactly N observations when the series has that many, so 1M is the
\* return of the latest month alone and 1Y that of the latest twelve
C24_WindowHoldsExactlyNMonths ==
    (response.kind = "performance" /\ gaps = 0) =>
        /\ \A p \in DOMAIN periods :
               Len(returns_df) >= periods[p]
                   => Len(PeriodData(returns_df, periods[p])) = periods[p]
        /\ Len(returns_df) >= 1
               => response.performance["1M"]
                      = calculate_total_return(Trailing(returns_df, 1))
        /\ Len(returns_df) >= 12
               => response.performance["1Y"]
                      = calculate_annualized_return(Trailing(returns_df, 12), 12)

\* the fall of the wealth index below the greatest of its first i values,
\* in percent of that value
DrawdownAt(wealth, i) ==
    RMul(RDiv(RSub(wealth[i], RunningMaxAt(wealth, i)), RunningMaxAt(wealth, i)),
         Hundred)

\* C25: the episode calculate_max_drawdown reports for a non-empty series
\* has its peak no later than its trough, its trough at a global minimum of
\* the drawdown series, a maximum drawdown that is that minimum and is <= 0,
\* no wealth between peak and trough above the wealth at the peak, and a
\* recovery date, when there is one, no earlier than the trough
C25_EpisodeWellFormed ==
    response.kind = "risk" =>
        LET episode == response.max_drawdown
            trough == IndexOf(returns_df, episode.trough_date)
            peak == IndexOf(returns_df, episode.peak_date)
            wealth == Wealth(returns_df)
        IN  /\ episode.peak_date <= episode.trough_date
            /\ \A i \in 1..Len(returns_df) :
                   RLe(DrawdownAt(wealth, trough), DrawdownAt(wealth, i))
            /\ episode.max_drawdown = DrawdownAt(wealth, trough)
            /\ RLe(episode.max_drawdown, Zero)
            /\ \A i \in peak..trough : RLe(wealth[i], wealth[peak])
            /\ episode.recovery_date # NoDate
                   => episode.trough_date <= episode.recovery_date

\* a fall from a high to a trough that is not the end of the series, with a
\* later recovery
C25_Witness ==
    /\ response.kind = "risk"
    /\ response.max_drawdown.peak_date < response.max_drawdown.trough_date
    /\ RLt(response.max_drawdown.max_drawdown, Zero)
    /\ response.max_drawdown.recovery_date # NoDate
    /\ response.max_drawdown.trough_date < response.max_drawdown.recovery_date

\* the cumulative return of a fund on a date, None without an observation
ObservedOn(fund, date) ==
    IF \E i \in 1..Len(fund.returns) : fund.returns[i].date = date
    THEN <<fund.returns[CHOOSE i \in 1..Len(fund.returns) :
               fund.returns[i].date = date].cumulative_return>>
    ELSE None

\* C26: prepareChartData gives one row per distinct date of any fund's
\* list, in ascending date order, and the row's entry for each fund is that
\* fund's cumulative return on that date, null without an observation
C26_CommonDateGrid ==
    (response.kind = "chart" /\ page.returnsData # <<>>) =>
        LET funds == page.returnsData[1].funds
            chartData == response.chartData
            dates == UNION {{funds[k].returns[i].date :
                               i \in 1..Len(funds[k].returns)} :
                            k \in 1..Len(funds)}
        IN  /\ Len(chartData) = Cardinality(dates)
            /\ {chartData[r].date : r \in 1..Len(chartData)} = dates
            /\ \A r \in 1..(Len(chartData) - 1) :
                   to_datetime(chartData[r].date) < to_datetime(chartData[r + 1].date)
            /\ \A r \in 1..Len(chartData), k \in 1..Len(funds) :
                   chartData[r].cumulative[funds[k].fund_name]
                       = ObservedOn(funds[k], chartData[r].date)

\* the number of observations of the series whose return is in a set
MonthsWithReturnIn(df, R) ==
    Cardinality({i \in 1..Len(df) : df[i].monthly_return \in R})

\* C27: positive_months and negative_months count the months with a return
\* above and below zero, a month of zero return in neither, and for a fund
\* with at least one such month the win rate shown is
\* positive / (positive + negative) * 100: 100 without a negative month and
\* 0 without a positive one
C27_WinRate ==
    response.kind = "risk_metrics" =>
        LET positive == MonthsWithReturnIn(returns_df, 1..200)
            negative == MonthsWithReturnIn(returns_df, (-200)..(-1))
        IN  /\ response.positive_months = positive
            /\ response.negative_months = negative
            /\ positive + negative > 0
                   => response.win_rate
                          = <<RDiv(<<100 * positive, 1>>, <<positive + negative, 1>>)>>

\* the load the page's current selection, date range and correlation period
\* call for
CurrentLoad ==
    [fundIds |-> page.selectedFunds,
     startDate |-> page.dateRange.startDate,
     endDate |-> page.dateRange.endDate,
     correlationPeriod |-> page.correlationPeriod]

\* C28: once no load is in flight (and none has left an error message), the
\* performance, returns, rolling, correlation, risk and drawdown data of the
\* page are those of its current selection, whatever the order in which the
\* loads completed, and are empty when no fund is selected
C28_LatestRequestWins ==
    (Len(loads) = 0 /\ page.error = <<>>) =>
        IF Len(page.selectedFunds) = 0
        THEN /\ page.performanceData = <<>>
             /\ page.returnsData = <<>>
             /\ page.rollingReturnsData = <<>>
             /\ page.correlationData = <<>>
             /\ page.riskData = <<>>
             /\ page.drawdownData = <<>>
        ELSE page = SetData(page, CurrentLoad)

\* C29: the loading flag of the compare page is true in every state in
\* which a comparison load is in flight, overlapping loads included, and is
\* false once none is
C29_LoadingWhileInFlight ==
    /\ Len(loads) > 0 => page.loading
    /\ Len(loads) = 0 => ~page.loading

\* C30: an upload answered 400 (file name not .xlsx or .xls) or 500 (the
\* file could not be read or parsed) leaves the funds, the returns and the
\* upload timestamp of the DataStore exactly as they were, so data loaded
\* before is still there
C30_FailedUploadKeepsStore ==
    [][(response'.kind = "upload" /\ response'.status \in {400, 500})
           => /\ UNCHANGED <<_funds_df, _returns_df, _upload_timestamp>>
              /\ has_data' = has_data]_vars

\* a sheet without a single return was uploaded after a good one: the
\* upload failed and the store holds the earlier data
C30_Witness ==
    /\ response.kind = "upload"
    /\ response.status = 500
    /\ has_data
    /\ uploaded # None
    /\ _upload_timestamp # None

====
